---------------------------- MODULE Spec2Model ----------------------------
(***************************************************************************)
(* HowMuch-Backend: ingestion-and-normalization pipeline.                  *)
(*                                                                         *)
(* Strings are sequences of character codes (ASCII), so that sorting,      *)
(* joining and hashing are computed on the characters the code sees.       *)
(* None stands for Python's None / SQL NULL where a string is expected,   *)
(* Null where a number is expected.                                        *)
(***************************************************************************)
EXTENDS Integers, Sequences, FiniteSets, TLC

VARIABLES
    now,            \* wall clock: NOW() of the database, datetime.now() of a script
    items,          \* table items: set of rows
    itemAttrs,      \* item_attribute_values JOIN attributes LEFT JOIN attribute_options, per item_id
    nextItemId,     \* items.item_id autoincrement
    sku,            \* table sku: set of rows [sku_id, category_id, fingerprint]
    sku_attribute,  \* table sku_attribute: set of rows [sku_id, code, value]
    nextSkuId,      \* sku.sku_id autoincrement
    price_stats,    \* table price_stats: set of rows keyed by (sku_id, region_id, bucket_ts)
    pc,             \* position of the pipeline script main(): sku_pipline.py:410-430
    genItems,       \* generate_skus_for_all_items: the fetched item list
    genIdx,         \* generate_skus_for_all_items: position in the item list
    genAttrs,       \* generate_skus_for_all_items: attributes dict of the current item
    sku_map,        \* generate_skus_for_all_items: item_id -> sku_id
    everMapped,     \* history: every <<item_id, sku_id>> some run has put in sku_map
    fresh,          \* history: "once"/"again" when one/several aggregation runs have committed
                    \* since a listing last changed, "stale" otherwise
    lastSummary,    \* the last fetch_summary_info call and what it returned
    fpIn,           \* generate_fingerprint: the mapping handed in, as two insertion orders
    fpOut,          \* generate_fingerprint: what each copy returned for each order
    lastIngest,     \* the last crawl_once request: its rows, its time, the table before it
    guardIn,        \* price guard: the listing handed in, [category_id, price_text]
    guardOut,       \* price guard: whether each crawler's copy admits the listing
    seen_pids,      \* crawl_bg: ids of the listings already saved
    stop_flag,      \* crawl_bg: set by the signal handler
    crawlPc,        \* crawl_bg: position of crawl_all_pages_for_query
    page_num,       \* crawl_all_pages_for_query: the page being asked for
    rest,           \* fetch_and_process_page: the items of the page not yet looped over
    shortPage,      \* fetch_and_process_page: len(items) < ITEMS_PER_PAGE
    current_consecutive_seen_count,  \* fetch_and_process_page: its local counter
    streamSeenCount,  \* history: already-seen items since the last admitted item of the query
    thresholdHit,   \* history: the counter has reached the threshold in this query
    itemAfterHit,   \* history: process_item was called after the counter reached the threshold
    pageAfterHit,   \* history: a page was requested after the counter reached the threshold
    callIn,         \* a function called on its own: its arguments
    callOut,        \* a function called on its own: what it returned
    scheduler,      \* scheduler.py:12 _scheduler: 0 for None, else the scheduler object
    running,        \* the scheduler objects whose .running is true
    nextScheduler,  \* the next BackgroundScheduler object to be constructed
    executing,      \* per scheduler object: where its crawl_and_update thread is
    runPc,          \* per pipeline run racing on one SKU: its position
    runKey,         \* per pipeline run: the (category_id, fingerprint) it resolves
    runGot,         \* per pipeline run: the sku_id it resolved, Null before
    dg_stop_flag,   \* crawl_dg: set by the signal handler
    checkpoint,     \* crawl_dg: checkpoint.json and the dict saved to it, per district
    dgPc,           \* crawl_dg: position of crawl_all_seoul_for_query and crawl_dong
    dgGu,           \* crawl_all_seoul_for_query: position in SEOUL_GU
    dgDong,         \* crawl_all_seoul_for_query: position in dongs_info
    skip,           \* crawl_all_seoul_for_query: its local flag
    last_done_dong, \* crawl_all_seoul_for_query: its local, "" for None
    detail_tasks,   \* crawl_dong: the state of each extract_detail task, per link
    dgRows,         \* crawl_dg: the links of the rows in items_raw.csv
    dgVisited,      \* history: the dongs crawl_dong was called for in this run
    dgEnded,        \* history: per ended run, whether it ended with the flag unset
    dgAfterStop,    \* history: the kinds of request started with the flag set
    output_csv,     \* crawl_bg: the data rows of bunjang_items_raw.csv
    bgSeen,         \* crawl_bg: the set seen_pids of the running process
    running_stats,  \* crawl_bg: running_stats of the one category crawled, [n, mean]
    bgPc,           \* crawl_bg: "run" while a process runs, "exit" otherwise
    bgStart,        \* history: the number of rows in the CSV when the process started
    bgLast,         \* history: the last process_item call and how it ended
    bgCount,        \* history: the number of process_item calls so far
    ckFiles,        \* save_checkpoint: the content of checkpoint.json and of its .part file
    checkpoint_lock,  \* save_checkpoint: the caller holding the lock, 0 for none
    ckPc,           \* save_checkpoint: position of each caller
    ckData,         \* save_checkpoint: the data each caller saves
    ckAlive,        \* save_checkpoint: whether the process runs
    ckSaves         \* history: the number of save_checkpoint calls so far

itemVars == <<items, itemAttrs, nextItemId>>
skuVars == <<sku, sku_attribute, nextSkuId>>
genVars == <<pc, genItems, genIdx, genAttrs, sku_map, everMapped>>
statVars == <<price_stats, fresh, lastSummary>>
fpVars == <<fpIn, fpOut>>

pipelineVars == <<now, itemVars, skuVars, genVars, statVars>>

ingestVars == <<lastIngest>>
guardVars == <<guardIn, guardOut>>
crawlVars == <<seen_pids, stop_flag, crawlPc, page_num, rest, shortPage,
               current_consecutive_seen_count, streamSeenCount, thresholdHit,
               itemAfterHit, pageAfterHit>>

callVars == <<callIn, callOut>>
schedVars == <<scheduler, running, nextScheduler, executing>>
raceVars == <<runPc, runKey, runGot>>
dgVars == <<dg_stop_flag, checkpoint, dgPc, dgGu, dgDong, skip, last_done_dong,
            detail_tasks, dgRows, dgVisited, dgEnded, dgAfterStop>>
bgVars == <<output_csv, bgSeen, running_stats, bgPc, bgStart, bgLast, bgCount>>
ckVars == <<ckFiles, checkpoint_lock, ckPc, ckData, ckAlive, ckSaves>>

nonPipelineVars == <<fpVars, ingestVars, guardVars, crawlVars, callVars, schedVars, raceVars,
                     dgVars, bgVars, ckVars>>

vars == <<pipelineVars, nonPipelineVars>>

None == <<0 - 1>>
Null == 0 - 1

-----------------------------------------------------------------------------
(* Bounds of the model. *)

MaxItems == 3        \* rows the items table may hold when SKUs are resolved
MaxStatItems == 2    \* rows the items table may hold when statistics are aggregated
DayLen == 2          \* clock ticks in a day
DigestLen == 8       \* hex digits of the modelled digest (64 in SHA-256)
FingerprintLen == 4  \* hex digits kept of the digest (32 in the code)
MaxSchedulers == 4   \* scheduler objects constructed in one process
MaxRuns == 2         \* pipeline runs at the same time
MaxDongs == 2        \* dongs listed for one district
MaxDgRuns == 2       \* runs of crawl_dg.py over one checkpoint file
MaxBgItems == 3      \* process_item calls over all runs of crawl_bg.py
MaxSavers == 2       \* coroutines calling save_checkpoint
MaxSaves == 3        \* save_checkpoint calls over all runs
MaxBatch == 2        \* rows one crawl request hands to upsert_items
MaxIngested == 3     \* INSERT statements issued on the items table by crawl requests
MaxIngestClock == 3  \* last clock value at which a crawl request arrives
CONSECUTIVE_SEEN_THRESHOLD == 2  \* crawl_bg.py:28 (30 in the code)
ITEMS_PER_PAGE == 3              \* crawl_bg.py:27 (100 in the code)
MAX_PAGES_PER_QUERY == 2         \* crawl_bg.py:26 (100 in the code)

-----------------------------------------------------------------------------
(* Character strings. *)

S_model == <<109, 111, 100, 101, 108>>            \* "model"
S_color == <<99, 111, 108, 111, 114>>             \* "color"
S_storage == <<115, 116, 111, 114, 97, 103, 101>> \* "storage"
S_X == <<88>>                                     \* "X"
S_Y == <<89>>                                     \* "Y"
S_Blue == <<66, 108, 117, 101>>                   \* "Blue"
S_Empty == <<>>                                   \* ""
Colon == 58                                       \* ":"
Bar == 124                                        \* "|"

\* Python's str < str: lexicographic by code point.
RECURSIVE StrLess(_, _)
StrLess(a, b) ==
    IF b = <<>> THEN FALSE
    ELSE IF a = <<>> THEN TRUE
    ELSE IF Head(a) # Head(b) THEN Head(a) < Head(b)
    ELSE StrLess(Tail(a), Tail(b))

\* Python's tuple < tuple on (key, value) pairs.
PairLess(p, q) ==
    \/ StrLess(p[1], q[1])
    \/ p[1] = q[1] /\ StrLess(p[2], q[2])

\* str(n) for a non-negative int.
RECURSIVE IntToStr(_)
IntToStr(n) ==
    IF n < 10 THEN <<48 + n>>
    ELSE Append(IntToStr(n \div 10), 48 + (n % 10))

\* A Python dict is the sequence of its (key, value) pairs in insertion order.
DictKeys(d) == {d[i][1] : i \in DOMAIN d}
DictPairs(d) == {d[i] : i \in DOMAIN d}

\* d[k] = v : replaces in place when k is present, appends otherwise.
DictSet(d, k, v) ==
    IF \E i \in DOMAIN d : d[i][1] = k
    THEN [i \in DOMAIN d |-> IF d[i][1] = k THEN <<k, v>> ELSE d[i]]
    ELSE Append(d, <<k, v>>)

\* All orders in which the elements of a finite set can be listed.
Perms(S) ==
    {f \in [1..Cardinality(S) -> S] : \A x \in S : \E i \in DOMAIN f : f[i] = x}

-----------------------------------------------------------------------------
(* generate_fingerprint: services/sku_pipline.py:40-56, db/crud.py:21-34 *)

\* sorted(list): insertion of each element in turn before the first greater one.
RECURSIVE InsertSorted(_, _)
InsertSorted(p, s) ==
    IF s = <<>> THEN <<p>>
    ELSE IF PairLess(p, Head(s)) THEN <<p>> \o s
    ELSE <<Head(s)>> \o InsertSorted(p, Tail(s))

RECURSIVE SortPairs(_)
SortPairs(s) ==
    IF s = <<>> THEN <<>>
    ELSE InsertSorted(s[Len(s)], SortPairs(SubSeq(s, 1, Len(s) - 1)))

\* A plausible slip: the pairs are serialized in dict order.
sorted_unsorted(s) == s

\* sorted(attributes_dict.items())
sorted(s) == SortPairs(s)

\* "|".join(f"{k}:{v}" for k, v in sorted_attrs)
RECURSIVE JoinAttrs(_)
JoinAttrs(s) ==
    IF s = <<>> THEN <<>>
    ELSE IF Len(s) = 1 THEN s[1][1] \o <<Colon>> \o s[1][2]
    ELSE s[1][1] \o <<Colon>> \o s[1][2] \o <<Bar>> \o JoinAttrs(Tail(s))

\* One hex digit of the digest: a polynomial hash of the bytes from position i on.
RECURSIVE PolyHash(_, _, _, _)
PolyHash(s, i, mult, acc) ==
    IF i > Len(s) THEN acc
    ELSE PolyHash(s, i + 1, mult, (acc * mult + s[i]) % 65521)

\* hashlib.sha256(bytes).hexdigest(): a fixed-length string of hex digits that
\* depends on every byte of the input (the digest function itself is a stand-in).
sha256_hexdigest(s) ==
    [i \in 1..DigestLen |-> PolyHash(s, 1, 29 + 2 * i, i) % 16]

\* hexdigest()[:32]
Truncate(h) == SubSeq(h, 1, IF FingerprintLen < Len(h) THEN FingerprintLen ELSE Len(h))

\* services/sku_pipline.py:40-56
generate_fingerprint(attributes_dict) ==
    Truncate(sha256_hexdigest(JoinAttrs(sorted(attributes_dict))))

\* db/crud.py:21-34
crud_generate_fingerprint(spec_dict) ==
    Truncate(sha256_hexdigest(JoinAttrs(SortPairs(spec_dict))))

-----------------------------------------------------------------------------
(* Reference data and item attribute rows. *)

Categories == {1, 2}          \* category_id: 1 iPhone, 2 iPad
S_NoneStr == <<78, 111, 110, 101>>   \* "None", what str(None) gives

\* One row of item_attribute_values joined with attributes and attribute_options
\* (get_item_attributes' SELECT, sku_pipline.py:71-84).  PRIMARY KEY (item_id,
\* attribute_id) and attributes.code UNIQUE: at most one row per code and item.
AttrRow(code, datatype, vtext, vint, opt) ==
    [code |-> code, datatype |-> datatype, value_text |-> vtext,
     value_int |-> vint, option_value |-> opt]

R_modelX == AttrRow(S_model, "enum", None, Null, S_X)
R_modelY == AttrRow(S_model, "enum", None, Null, S_Y)
R_storage128 == AttrRow(S_storage, "int", None, 128, None)
R_colorBlue == AttrRow(S_color, "text", S_Blue, Null, None)
R_colorEmpty == AttrRow(S_color, "text", S_Empty, Null, None)

\* Python truthiness of an optional string.
Truthy(v) == v # None /\ v # <<>>

\* sku_pipline.py:91-103: the value of one row, by option and datatype.
\* (No decimal or bool attribute is in the reference data modelled here.)
RowValue(row) ==
    IF Truthy(row.option_value) THEN row.option_value
    ELSE IF row.datatype = "text" THEN row.value_text
    ELSE IF row.datatype = "int"
         THEN (IF row.value_int = Null THEN S_NoneStr ELSE IntToStr(row.value_int))
    ELSE None

\* sku_pipline.py:59-108: the dict built from the rows in the order fetched.
RECURSIVE get_item_attributes(_)
get_item_attributes(rows) ==
    IF rows = <<>> THEN <<>>
    ELSE LET d == get_item_attributes(SubSeq(rows, 1, Len(rows) - 1))
             r == rows[Len(rows)]
         IN  IF Truthy(RowValue(r)) THEN DictSet(d, r.code, RowValue(r)) ELSE d

\* The set of (attribute code, value) pairs of a listing.
AttrSetOf(rowset) == {<<r.code, RowValue(r)>> : r \in {x \in rowset : Truthy(RowValue(x))}}

-----------------------------------------------------------------------------
(* Tables. *)

\* sku_id: the INSERT of ingest.py:23-24 does not name the column.
ItemRow(id, src, ext, cat, region, title, price, status, created) ==
    [item_id |-> id, source |-> src, external_id |-> ext, category_id |-> cat,
     region_id |-> region, title |-> title, price |-> price, status |-> status,
     created_at |-> created, updated_at |-> created, sku_id |-> Null]

ItemById(id) == CHOOSE r \in items : r.item_id = id
ItemIds == {r.item_id : r \in items}

\* SELECT sku_id FROM sku WHERE category_id = %s AND fingerprint = %s
SelectSku(cat, fp) == {r \in sku : r.category_id = cat /\ r.fingerprint = fp}

\* db/models.py:215: sku.fingerprint is UNIQUE (on its own).
SkuUniqueViolated(cat, fp) == \E r \in sku : r.fingerprint = fp

\* Python dict sku_map as a function; sku_map.get(item_id)
MapGet(m, k) == IF k \in DOMAIN m THEN m[k] ELSE Null
MapPut(m, k, v) == [x \in (DOMAIN m) \cup {k} |-> IF x = k THEN v ELSE m[x]]
EmptyMap == [x \in {} |-> 0]

NoSummary == [called |-> FALSE]
NoIngest == [called |-> FALSE]

-----------------------------------------------------------------------------
(* generate_skus_for_all_items: sku_pipline.py:190-256 *)

\* sku_pipline.py:198-210: SELECT item_id, category_id FROM items ORDER BY item_id
GenStart ==
    /\ pc = "idle"
    /\ items # {}
    /\ pc' = "gen"
    /\ genItems' = [i \in 1..Cardinality(items) |->
                      LET id == CHOOSE x \in ItemIds :
                                  Cardinality({y \in ItemIds : y < x}) = i - 1
                      IN  [item_id |-> id, category_id |-> ItemById(id).category_id]]
    /\ genIdx' = 1
    /\ genAttrs' = <<>>
    /\ sku_map' = EmptyMap
    /\ lastSummary' = NoSummary
    /\ UNCHANGED <<now, itemVars, skuVars, price_stats, fresh, everMapped,
                   nonPipelineVars>>

\* sku_pipline.py:212-244, one item: attributes, fingerprint, the SELECT of the loop.
\* The rows come back in an order the database chooses.
GenLoop ==
    /\ pc = "gen"
    /\ genIdx <= Len(genItems)
    /\ LET item == genItems[genIdx] IN
       \E order \in Perms(itemAttrs[item.item_id]) :
         LET attributes == get_item_attributes(order)
             fingerprint == generate_fingerprint(attributes)
             result == SelectSku(item.category_id, fingerprint)
         IN  IF attributes = <<>>
             THEN /\ genIdx' = genIdx + 1
                  /\ UNCHANGED <<pc, genAttrs, sku_map, everMapped>>
             ELSE IF result # {}
             THEN LET sku_id == (CHOOSE r \in result : TRUE).sku_id IN
                  /\ sku_map' = MapPut(sku_map, item.item_id, sku_id)
                  /\ everMapped' = everMapped \cup {<<item.item_id, sku_id>>}
                  /\ genIdx' = genIdx + 1
                  /\ UNCHANGED <<pc, genAttrs>>
             ELSE /\ pc' = "create"
                  /\ genAttrs' = attributes
                  /\ UNCHANGED <<genIdx, sku_map, everMapped>>
    /\ UNCHANGED <<now, itemVars, skuVars, statVars, genItems, nonPipelineVars>>

\* save_sku_attributes, sku_pipline.py:146-187: one row per attribute of the dict
\* (every code modelled is in the attributes table); ON CONFLICT DO NOTHING.
save_sku_attributes(tbl, sku_id, attributes_dict) ==
    tbl \cup {[sku_id |-> sku_id, code |-> attributes_dict[i][1],
               value |-> attributes_dict[i][2]] : i \in DOMAIN attributes_dict}

\* get_or_create_sku, sku_pipline.py:111-143, called at sku_pipline.py:240.
\* An INSERT that violates the unique constraint raises; nothing catches it, so
\* generate_skus_for_all_items closes the connection and the script ends.
GenCreate ==
    /\ pc = "create"
    /\ LET item == genItems[genIdx]
           fingerprint == generate_fingerprint(genAttrs)
           result == SelectSku(item.category_id, fingerprint)
       IN  IF result # {}
           THEN LET sku_id == (CHOOSE r \in result : TRUE).sku_id IN
                /\ sku_map' = MapPut(sku_map, item.item_id, sku_id)
                /\ everMapped' = everMapped \cup {<<item.item_id, sku_id>>}
                /\ genIdx' = genIdx + 1
                /\ pc' = "gen"
                /\ UNCHANGED <<sku, sku_attribute, nextSkuId, genItems>>
           ELSE IF SkuUniqueViolated(item.category_id, fingerprint)
           THEN /\ pc' = "idle"
                /\ sku_map' = EmptyMap
                /\ genItems' = <<>>
                /\ genIdx' = 1
                /\ UNCHANGED <<sku, sku_attribute, nextSkuId, everMapped>>
           ELSE /\ sku' = sku \cup {[sku_id |-> nextSkuId,
                                     category_id |-> item.category_id,
                                     fingerprint |-> fingerprint]}
                /\ nextSkuId' = nextSkuId + 1
                /\ sku_attribute' = save_sku_attributes(sku_attribute, nextSkuId, genAttrs)
                /\ sku_map' = MapPut(sku_map, item.item_id, nextSkuId)
                /\ everMapped' = everMapped \cup {<<item.item_id, nextSkuId>>}
                /\ genIdx' = genIdx + 1
                /\ pc' = "gen"
                /\ UNCHANGED genItems
    /\ genAttrs' = <<>>
    /\ UNCHANGED <<now, itemVars, statVars, nonPipelineVars>>

\* sku_pipline.py:253 and main, sku_pipline.py:419-426: an empty sku_map ends the script.
GenReturn ==
    /\ pc = "gen"
    /\ genIdx > Len(genItems)
    /\ pc' = IF DOMAIN sku_map = {} THEN "idle" ELSE "aggregate"
    /\ UNCHANGED <<now, itemVars, skuVars, statVars, genItems, genIdx, genAttrs,
                   sku_map, everMapped, nonPipelineVars>>

-----------------------------------------------------------------------------
(* aggregate_price_stats: sku_pipline.py:259-345 *)

\* sku_pipline.py:348-364, with clock value 0 a Monday, 00:00.  (A calendar month
\* is not a whole number of ticks; main passes 'day', sku_pipline.py:426.)
truncate_to_bucket(dt, interval) ==
    IF interval = "day" THEN dt - (dt % DayLen)
    ELSE IF interval = "week" THEN dt - (dt % (7 * DayLen))
    ELSE dt

RECURSIVE SumPrice(_)
SumPrice(S) ==
    IF S = {} THEN 0
    ELSE LET r == CHOOSE x \in S : TRUE IN r.price + SumPrice(S \ {r})

MinPrice(S) == CHOOSE p \in {r.price : r \in S} : \A r \in S : p <= r.price
MaxPrice(S) == CHOOSE p \in {r.price : r \in S} : \A r \in S : p >= r.price

\* sku_pipline.py:277-286: SELECT ... FROM items i, every row of the table.
AggregatedItems == items

\* sku_pipline.py:292-308: the listings of one (sku_id, region_id, bucket_ts) key;
\* a listing sku_map does not hold is skipped.
StatsKey(m, r, interval) ==
    <<MapGet(m, r.item_id), r.region_id, truncate_to_bucket(r.created_at, interval)>>

StatsGroups(m, interval) ==
    {StatsKey(m, r, interval) : r \in {x \in AggregatedItems : MapGet(m, x.item_id) # Null}}

StatsGroup(m, interval, key) ==
    {r \in AggregatedItems : MapGet(m, r.item_id) # Null /\ StatsKey(m, r, interval) = key}

\* avg_price is NUMERIC(18, 2) (db/models.py:261): held in hundredths, the quotient
\* rounded to the nearest hundredth.
AvgHundredths(sum_price, items_num) == (200 * sum_price + items_num) \div (2 * items_num)

\* sku_pipline.py:316-320
FreshStats(key, group) ==
    [sku_id |-> key[1], region_id |-> key[2], bucket_ts |-> key[3],
     items_num |-> Cardinality(group),
     sum_price |-> SumPrice(group),
     avg_price |-> AvgHundredths(SumPrice(group), Cardinality(group)),
     min_price |-> MinPrice(group),
     max_price |-> MaxPrice(group)]

SameKey(a, b) ==
    a.sku_id = b.sku_id /\ a.region_id = b.region_id /\ a.bucket_ts = b.bucket_ts

\* A plausible slip: on conflict the new values are added onto the stored ones.
UpsertStats_accumulate(tbl, row) ==
    IF \E old \in tbl : SameKey(old, row)
    THEN LET old == CHOOSE o \in tbl : SameKey(o, row) IN
         (tbl \ {old}) \cup
            {[row EXCEPT !.items_num = old.items_num + row.items_num,
                         !.sum_price = old.sum_price + row.sum_price,
                         !.avg_price = AvgHundredths(old.sum_price + row.sum_price,
                                                     old.items_num + row.items_num)]}
    ELSE tbl \cup {row}

\* sku_pipline.py:322-333: INSERT ... ON CONFLICT (sku_id, region_id, bucket_ts)
\* DO UPDATE SET the five derived columns = EXCLUDED's.
UpsertStats(tbl, row) == {old \in tbl : ~SameKey(old, row)} \cup {row}

RECURSIVE UpsertAll(_, _)
UpsertAll(tbl, rows) ==
    IF rows = {} THEN tbl
    ELSE LET r == CHOOSE x \in rows : TRUE IN UpsertAll(UpsertStats(tbl, r), rows \ {r})

\* The whole of aggregate_price_stats as main calls it.  region_id is part of the
\* primary key of price_stats (db/models.py:256-258): a NULL region_id makes the
\* INSERT raise before conn.commit(), and closing the connection drops every row
\* written by the run.
Aggregate ==
    /\ pc = "aggregate"
    /\ LET keys == StatsGroups(sku_map, "day")
           rows == {FreshStats(k, StatsGroup(sku_map, "day", k)) : k \in keys}
       IN  IF \E k \in keys : k[2] = Null
           THEN UNCHANGED <<price_stats, fresh>>
           ELSE /\ price_stats' = UpsertAll(price_stats, rows)
                /\ fresh' = IF fresh = "stale" THEN "once" ELSE "again"
    /\ pc' = "idle"
    /\ UNCHANGED <<now, itemVars, skuVars, genItems, genIdx, genAttrs, sku_map,
                   everMapped, lastSummary, nonPipelineVars>>

-----------------------------------------------------------------------------
(* fetch_summary_info: services/analytics.py:143-240 *)

SeoulRegions == {1}           \* emd rows whose sd is the one named at analytics.py:159
Regions == {1, 2}             \* emd.region_id: 1 in Seoul, 2 in another province

RECURSIVE SumItemsNum(_)
SumItemsNum(S) ==
    IF S = {} THEN 0
    ELSE LET r == CHOOSE x \in S : TRUE IN r.items_num + SumItemsNum(S \ {r})

RECURSIVE SumWeighted(_)
SumWeighted(S) ==
    IF S = {} THEN 0
    ELSE LET r == CHOOSE x \in S : TRUE
         IN  r.avg_price * r.items_num + SumWeighted(S \ {r})

MaxOf(S) == CHOOSE m \in S : \A x \in S : x <= m
MinOf(S) == CHOOSE m \in S : \A x \in S : m <= x

\* WHERE of the CTE: analytics.py:165-173 (city-wide) and analytics.py:195-196.
InScope(ps, sku_ids, region_id) ==
    /\ ps.sku_id \in sku_ids
    /\ IF region_id = Null THEN ps.region_id \in SeoulRegions
       ELSE ps.region_id = region_id

\* A plausible slip: every bucket in scope is joined, not only the latest ones.
LatestJoin_all_buckets(sku_ids, region_id) ==
    {ps \in price_stats : InScope(ps, sku_ids, region_id)}

\* WITH latest AS (... MAX(bucket_ts) ... GROUP BY sku_id, region_id), joined back
\* to price_stats on the three key columns: analytics.py:162-186, 192-216.
LatestJoin(sku_ids, region_id) ==
    {ps \in price_stats :
        /\ InScope(ps, sku_ids, region_id)
        /\ \A other \in price_stats :
              (InScope(other, sku_ids, region_id) /\ other.sku_id = ps.sku_id
                 /\ other.region_id = ps.region_id) => other.bucket_ts <= ps.bucket_ts}

\* avg_price is held in hundredths; the cast to an integer drops the fraction
\* (CAST(... AS INTEGER) of the engine bound in db/session.py:9, int() in Python).
WeightedAvgInt(rows) == SumWeighted(rows) \div (100 * SumItemsNum(rows))

\* analytics.py:143-240 for a non-empty sku_ids.
fetch_summary_info(sku_ids, region_id) ==
    LET rows == LatestJoin(sku_ids, region_id) IN
    IF rows = {}
    THEN IF region_id = Null
         THEN [status |-> "404"]   \* every aggregate is NULL: analytics.py:221-226
         ELSE [status |-> "ok", average_price |-> 0, highest_listing_price |-> 0,
               lowest_listing_price |-> 0, listing_count |-> 0, data_date |-> Null]
    ELSE [status |-> "ok",
          average_price |-> WeightedAvgInt(rows),
          highest_listing_price |-> MaxOf({r.max_price : r \in rows}),
          lowest_listing_price |-> MinOf({r.min_price : r \in rows}),
          listing_count |-> SumItemsNum(rows),
          data_date |-> MaxOf({r.bucket_ts : r \in rows})]

\* A read request; price_stats changes only in Aggregate's single commit, so the
\* request is taken between pipeline runs.  lastSummary holds the response until
\* the next thing happens.
Summary ==
    /\ pc = "idle"
    /\ \E sku_ids \in (SUBSET {r.sku_id : r \in sku}) \ {{}} :
       \E region_id \in Regions \cup {Null} :
          lastSummary' = [called |-> TRUE, sku_ids |-> sku_ids, region_id |-> region_id,
                          result |-> fetch_summary_info(sku_ids, region_id)]
    /\ UNCHANGED <<now, itemVars, skuVars, genVars, price_stats, fresh, nonPipelineVars>>

-----------------------------------------------------------------------------
(* What happens around the pipeline script. *)

\* A listing is stored and its attributes are extracted (upstream of this script).
InsertListing(cat, rows, price, region, max) ==
    /\ pc = "idle"
    /\ Cardinality(items) < max
    /\ items' = items \cup {ItemRow(nextItemId, "daangn", nextItemId, cat, region,
                                    "t", price, "active", now)}
    /\ itemAttrs' = [id \in ItemIds \cup {nextItemId} |->
                       IF id = nextItemId THEN rows ELSE itemAttrs[id]]
    /\ nextItemId' = nextItemId + 1
    /\ fresh' = "stale"
    /\ lastSummary' = NoSummary
    /\ UNCHANGED <<now, skuVars, genVars, price_stats, nonPipelineVars>>

\* <<category_id, attribute rows>> of the listings that arrive.
SkuListings ==
    { <<1, {}>>,
      <<1, {R_modelX}>>,
      <<1, {R_modelX, R_storage128}>>,
      <<1, {R_modelX, R_storage128, R_colorEmpty}>>,
      <<1, {R_colorBlue, R_modelX}>>,
      <<2, {R_modelX, R_storage128}>> }

ListingWithAttributes ==
    \E l \in SkuListings : InsertListing(l[1], l[2], 650000, 1, MaxItems)

\* <<attribute rows, price, region_id>> of the listings that arrive, all of category 1.
StatListings ==
    { <<{R_modelX}, 700000, 1>>,
      <<{R_modelX}, 650000, 1>>,
      <<{R_modelY}, 650000, 1>>,
      <<{R_modelX}, 650000, 2>>,
      <<{R_modelX}, 650000, Null>> }

ListingForStats ==
    \E l \in StatListings : InsertListing(1, l[1], l[2], l[3], MaxStatItems)

\* The marketplace reports a listing sold; the row's status is set.
ListingSold ==
    /\ pc = "idle"
    /\ \E r \in items :
          /\ r.status = "active"
          /\ items' = (items \ {r}) \cup {[r EXCEPT !.status = "sold"]}
    /\ fresh' = "stale"
    /\ lastSummary' = NoSummary
    /\ UNCHANGED <<now, itemAttrs, nextItemId, skuVars, genVars, price_stats,
                   nonPipelineVars>>

\* Midnight passes: the clock shows the same time of the next day.  Two days are
\* followed.
Tick ==
    /\ pc = "idle"
    /\ now < DayLen
    /\ now' = now + DayLen
    /\ lastSummary' = NoSummary
    /\ UNCHANGED <<itemVars, skuVars, genVars, price_stats, fresh, nonPipelineVars>>

-----------------------------------------------------------------------------
(* services/ingest.py and its caller routers/crawl.py *)

Comma == 44     \* ","
Space == 32     \* " "
S_Won == <<50896>>                  \* the currency word stripped at ingest.py:8
KeywordsNoPrice ==                  \* the four words of ingest.py:9
    { <<45208, 45588>>, <<47924, 47308>>, <<44032, 44201>>, <<47928, 51032>> }

IsDigit(c) == c >= 48 /\ c <= 57

RECURSIVE StrToInt(_)
StrToInt(d) ==
    IF d = <<>> THEN 0 ELSE 10 * StrToInt(SubSeq(d, 1, Len(d) - 1)) + (d[Len(d)] - 48)

\* str.replace(old, "") for a one-character old.
RemoveChar(t, c) == SelectSeq(t, LAMBDA x : x # c)

\* k in t
Contains(t, k) ==
    \E i \in 1..(Len(t) - Len(k) + 1) : SubSeq(t, i, i + Len(k) - 1) = k

\* ingest.py:6-11
parse_price_to_int(price_text) ==
    IF price_text = None \/ price_text = <<>> THEN Null
    ELSE LET t == RemoveChar(RemoveChar(RemoveChar(price_text, Comma), S_Won[1]), Space)
             digits == SelectSeq(t, IsDigit)
         IN  IF \E k \in KeywordsNoPrice : Contains(t, k) THEN Null
             ELSE IF digits = <<>> THEN Null
             ELSE StrToInt(digits)

\* Table emd: the rows find_region_id reads.
emd == { [region_id |-> 1, name |-> "yeoksam"], [region_id |-> 2, name |-> "seocho"] }

\* ingest.py:13-19; gu is not read.  An absent dong is "".
find_region_id(gu, dong) ==
    IF dong # "" /\ (\E e \in emd : e.name = dong)
    THEN (CHOOSE e \in emd : e.name = dong).region_id
    ELSE Null

\* core/config.py:15
CATEGORY_IPHONE == 1

\* The status literal of the INSERT, ingest.py:24 (a word in Hangul: "on sale").
S_OnSale == "panmaejung"

\* A NULL title; the statement is never handed one (ingest.py:38).
NoTitle == "NULL"

COALESCE(a, b, null) == IF a = null THEN b ELSE a

\* ON CONFLICT ... DO UPDATE SET of ingest.py:26-29, keeping the old row.
DoUpdate_keep(old, excluded, t) == old

\* ON CONFLICT ... DO UPDATE SET of ingest.py:26-29
DoUpdate(old, excluded, t) ==
    [old EXCEPT !.title = COALESCE(excluded.title, old.title, NoTitle),
                !.price = COALESCE(excluded.price, old.price, Null),
                !.updated_at = t]

\* The statement of ingest.py:22-30 on table tbl; id is the next item_id, t is NOW().
ItemsUpsert(tbl, id, p, t) ==
    LET hit == {r \in tbl : r.source = p.source /\ r.external_id = p.external_id} IN
    IF hit = {}
    THEN tbl \cup {ItemRow(id, p.source, p.external_id, p.category_id, p.region_id,
                           p.title, p.price, S_OnSale, t)}
    ELSE (tbl \ hit) \cup {DoUpdate(old, p, t) : old \in hit}

\* The parameters of ingest.py:33-43 for record r.
UpsertParams(r, default_category_id) ==
    LET price == IF r.price # Null THEN r.price ELSE parse_price_to_int(r.price_text) IN
    [region_id |-> find_region_id(r.gu, r.dong),
     category_id |-> IF r.category_id \in {Null, 0} THEN default_category_id
                     ELSE r.category_id,
     title |-> r.title,
     price |-> IF price \in {Null, 0} THEN 0 ELSE price,
     source |-> r.source,
     external_id |-> r.external_id]

\* ingest.py:21-45: one statement per record, in order.
RECURSIVE upsert_items(_, _, _, _, _)
upsert_items(tbl, rows, id, default_category_id, t) ==
    IF rows = <<>> THEN tbl
    ELSE upsert_items(ItemsUpsert(tbl, id, UpsertParams(Head(rows), default_category_id), t),
                      Tail(rows), id + 1, default_category_id, t)

RawItemRec(src, ext, cat, title, price, price_text, status, dong) ==
    [source |-> src, external_id |-> ext, category_id |-> cat, title |-> title,
     price |-> price, price_text |-> price_text, status |-> status,
     gu |-> "gangnam", dong |-> dong]

S_450000Won == <<52, 53, 48, 44, 48, 48, 48, 50896>>   \* "450,000" and the currency word

\* The records the crawlers hand over.
IngestRecords ==
    { RawItemRec("daangn", 100, 1, "a", 500000, None, "active", "yeoksam"),
      RawItemRec("daangn", 100, 1, "b", 450000, None, "sold", "seocho"),
      RawItemRec("daangn", 100, Null, "", Null, S_450000Won, "active", ""),
      RawItemRec("daangn", 100, 2, "a", Null, <<45208, 45588>>, "reserved", "nowhere"),
      RawItemRec("bunjang", 100, 1, "a", 650000, None, "active", "yeoksam"),
      RawItemRec("daangn", 200, 1, "c", 0, None, "active", "yeoksam") }

Batches == UNION {[1..n -> IngestRecords] : n \in 1..MaxBatch}

\* routers/crawl.py:53-64 (and 24-50): upsert_items on the crawled rows, then commit.
crawl_once ==
    \E rows \in Batches :
        /\ pc = "idle"
        /\ nextItemId + Len(rows) - 1 <= MaxIngested
        /\ items' = upsert_items(items, rows, nextItemId, CATEGORY_IPHONE, now)
        /\ nextItemId' = nextItemId + Len(rows)
        /\ itemAttrs' = [id \in {r.item_id : r \in items'} |->
                           IF id \in DOMAIN itemAttrs THEN itemAttrs[id] ELSE {}]
        /\ lastIngest' = [called |-> TRUE, rows |-> rows, at |-> now, before |-> items]
        /\ UNCHANGED <<now, skuVars, genVars, statVars, fpVars, guardVars, crawlVars, callVars,
                   schedVars, raceVars, dgVars, bgVars, ckVars>>

\* Time passes between two requests.
IngestTick ==
    /\ now < MaxIngestClock
    /\ now' = now + 1
    /\ lastIngest' = NoIngest
    /\ UNCHANGED <<itemVars, skuVars, genVars, statVars, fpVars, guardVars, crawlVars,
                   callVars,
                   schedVars, raceVars, dgVars, bgVars, ckVars>>

-----------------------------------------------------------------------------
(* The price guard of the three crawlers. *)

IPHONE == 1
IPAD == 2
MACBOOK == 3
WATCH == 4
AIRPODS == 5

\* crawl_bg.py:54-56
bg_CATEGORY_PRICE_GUARD ==
    (IPHONE :> [min |-> 30000, max |-> 5000000]) @@ (IPAD :> [min |-> 30000, max |-> 4000000])
    @@ (MACBOOK :> [min |-> 100000, max |-> 8000000])
    @@ (WATCH :> [min |-> 20000, max |-> 2000000])
    @@ (AIRPODS :> [min |-> 10000, max |-> 800000])

\* crawl_dg.py:43-45
dg_CATEGORY_PRICE_GUARD ==
    (IPHONE :> [min |-> 30000, max |-> 5000000]) @@ (IPAD :> [min |-> 30000, max |-> 4000000])
    @@ (MACBOOK :> [min |-> 100000, max |-> 8000000])
    @@ (WATCH :> [min |-> 20000, max |-> 2000000])
    @@ (AIRPODS :> [min |-> 10000, max |-> 800000])

\* crawl_jg.py:172-178
jg_CATEGORY_PRICE_GUARD ==
    (IPHONE :> [min |-> 30000, max |-> 5000000]) @@ (IPAD :> [min |-> 30000, max |-> 4000000])
    @@ (MACBOOK :> [min |-> 100000, max |-> 8000000])
    @@ (WATCH :> [min |-> 20000, max |-> 2000000])
    @@ (AIRPODS :> [min |-> 10000, max |-> 800000])

\* crawl_bg.py:35, crawl_dg.py:26
ENABLE_PRICE_GUARD == TRUE

\* crawl_bg.py:206-213, crawl_dg.py:173-178
parse_price_int(price_text) ==
    LET digits == SelectSeq(price_text, IsDigit) IN
    IF price_text = <<>> THEN Null
    ELSE IF digits = <<>> THEN Null
    ELSE StrToInt(digits)

\* crawl_bg.py:58-61 with a range that leaves out its two ends.
bg_price_is_ridiculous_exclusive(category_id, price) ==
    IF price = Null THEN TRUE
    ELSE IF category_id \notin DOMAIN bg_CATEGORY_PRICE_GUARD THEN FALSE
    ELSE LET g == bg_CATEGORY_PRICE_GUARD[category_id] IN
         ~(g.min < price /\ price < g.max)

\* crawl_bg.py:58-61
bg_price_is_ridiculous(category_id, price) ==
    IF price = Null THEN TRUE
    ELSE IF category_id \notin DOMAIN bg_CATEGORY_PRICE_GUARD THEN FALSE
    ELSE LET g == bg_CATEGORY_PRICE_GUARD[category_id] IN
         ~(g.min <= price /\ price <= g.max)

\* crawl_dg.py:46-49
dg_price_is_ridiculous(category_id, price) ==
    IF price = Null THEN TRUE
    ELSE IF category_id \notin DOMAIN dg_CATEGORY_PRICE_GUARD THEN FALSE
    ELSE LET g == dg_CATEGORY_PRICE_GUARD[category_id] IN
         ~(g.min <= price /\ price <= g.max)

\* crawl_bg.py:239,242: the listing gets past the guard.
bg_guard_admits(category_id, price_text) ==
    ~(ENABLE_PRICE_GUARD /\ bg_price_is_ridiculous(category_id, parse_price_int(price_text)))

\* crawl_dg.py:318,323
dg_guard_admits(category_id, price_text) ==
    ~(ENABLE_PRICE_GUARD /\ dg_price_is_ridiculous(category_id, parse_price_int(price_text)))

\* crawl_jg.py:344-352: the loop does not continue at the guard.
jg_guard_admits(category_id, raw_price) ==
    LET digits == SelectSeq(raw_price, IsDigit)
        price == IF digits # <<>> THEN StrToInt(digits) ELSE 0
    IN  IF category_id \in DOMAIN jg_CATEGORY_PRICE_GUARD
        THEN LET guard == jg_CATEGORY_PRICE_GUARD[category_id] IN
             ~(price < guard.min \/ price > guard.max)
        ELSE TRUE

\* The prices shown by the listings handed to the guard.
GuardPrices ==
    { 0, 9999, 10000, 19999, 20000, 29999, 30000, 99999, 100000, 800000, 800001,
      2000000, 2000001, 4000000, 4000001, 5000000, 5000001, 8000000, 8000001 }

\* The price texts: digits followed by the currency word, no text, a text without digits.
GuardPriceTexts ==
    {IntToStr(n) \o S_Won : n \in GuardPrices} \cup {<<>>, <<45208, 45588>>}

\* The five guarded categories and one without a guard.
GuardCategories == {IPHONE, IPAD, MACBOOK, WATCH, AIRPODS, 9}

GuardCall ==
    /\ guardOut = <<>>
    /\ guardOut' = [bg |-> bg_guard_admits(guardIn.category_id, guardIn.price_text),
                    dg |-> dg_guard_admits(guardIn.category_id, guardIn.price_text),
                    jg |-> jg_guard_admits(guardIn.category_id, guardIn.price_text)]
    /\ UNCHANGED <<pipelineVars, fpVars, ingestVars, guardIn, crawlVars, callVars,
                   schedVars, raceVars, dgVars, bgVars, ckVars>>

-----------------------------------------------------------------------------
(* crawl_bg.py: the incremental crawl of one query. *)

S_500000 == <<53, 48, 48, 48, 48, 48>>   \* "500000"
S_1000 == <<49, 48, 48, 48>>             \* "1000"

\* An entry of the API's list: pid "" when it has none; rejected stands for the
\* title, outlier and location filters of crawl_bg.py:241-259.
ApiItem(pid, ad, price, rejected) ==
    [pid |-> pid, ad |-> ad, price |-> price, rejected |-> rejected]

CrawlItems ==
    { ApiItem("p1", FALSE, S_500000, FALSE),
      ApiItem("p2", TRUE, S_500000, FALSE),
      ApiItem("p3", FALSE, S_1000, FALSE),
      ApiItem("p4", FALSE, S_500000, TRUE),
      ApiItem("", FALSE, S_500000, FALSE) }

CrawlPids == {i.pid : i \in CrawlItems} \ {""}

\* The lists the API may answer with.
ApiLists == UNION {[1..n -> CrawlItems] : n \in 0..ITEMS_PER_PAGE}

\* What a request of a page comes back with: a list of items, an HTTP status
\* error, or a request error.
ApiResponses ==
    {[kind |-> "list", list |-> l] : l \in ApiLists}
    \cup {[kind |-> "http_error", list |-> <<>>], [kind |-> "request_error", list |-> <<>>]}

\* crawl_bg.py:225-279: the value returned; on TRUE the pid is added to the seen-set.
process_item(item, category_id, _seen_pids) ==
    /\ item.pid # ""
    /\ item.pid \notin _seen_pids
    /\ ~item.ad
    /\ bg_guard_admits(category_id, item.price)
    /\ ~item.rejected

\* crawl_bg.py:366,369 and 282-314: the request of page page_num.
FetchPage ==
    \E resp \in ApiResponses :
        /\ crawlPc = "fetch"
        /\ ~stop_flag
        /\ page_num < MAX_PAGES_PER_QUERY
        /\ pageAfterHit' = (pageAfterHit \/ thresholdHit)
        /\ IF resp.kind = "http_error"
           THEN /\ page_num' = page_num + 1
                /\ UNCHANGED <<crawlPc, rest, shortPage, current_consecutive_seen_count>>
           ELSE IF resp.kind = "request_error" \/ resp.list = <<>>
           THEN /\ crawlPc' = "done"
                /\ UNCHANGED <<page_num, rest, shortPage, current_consecutive_seen_count>>
           ELSE /\ crawlPc' = "loop"
                /\ rest' = resp.list
                /\ shortPage' = (Len(resp.list) < ITEMS_PER_PAGE)
                /\ current_consecutive_seen_count' = 0
                /\ UNCHANGED page_num
        /\ UNCHANGED <<seen_pids, stop_flag, streamSeenCount, thresholdHit, itemAfterHit>>
        /\ UNCHANGED <<pipelineVars, fpVars, ingestVars, guardVars, callVars,
                   schedVars, raceVars, dgVars, bgVars, ckVars>>

\* crawl_bg.py:316-324: one turn of the loop over the page's items.
ProcessItem ==
    /\ crawlPc = "loop"
    /\ rest # <<>>
    /\ LET item == Head(rest)
           is_new_item == process_item(item, IPHONE, seen_pids)
           seen == IF is_new_item THEN seen_pids \cup {item.pid} ELSE seen_pids
           count == IF is_new_item THEN 0
                    ELSE IF item.pid # "" /\ item.pid \in seen
                    THEN current_consecutive_seen_count + 1
                    ELSE current_consecutive_seen_count
       IN  /\ seen_pids' = seen
           /\ current_consecutive_seen_count' = count
           /\ streamSeenCount' = IF is_new_item THEN 0
                                 ELSE IF item.pid \in seen_pids THEN streamSeenCount + 1
                                 ELSE streamSeenCount
           /\ itemAfterHit' = (itemAfterHit \/ thresholdHit)
           /\ thresholdHit' = (thresholdHit \/ count >= CONSECUTIVE_SEEN_THRESHOLD)
    /\ rest' = Tail(rest)
    /\ UNCHANGED <<stop_flag, crawlPc, page_num, shortPage, pageAfterHit>>
    /\ UNCHANGED <<pipelineVars, fpVars, ingestVars, guardVars, callVars,
                   schedVars, raceVars, dgVars, bgVars, ckVars>>

\* crawl_bg.py:326-351, 371-373: after the loop, stop or go to the next page.
PageEnd ==
    /\ crawlPc = "loop"
    /\ rest = <<>>
    /\ IF current_consecutive_seen_count >= CONSECUTIVE_SEEN_THRESHOLD \/ shortPage
       THEN crawlPc' = "done" /\ UNCHANGED page_num
       ELSE crawlPc' = "fetch" /\ page_num' = page_num + 1
    /\ UNCHANGED <<seen_pids, stop_flag, rest, shortPage, current_consecutive_seen_count,
                   streamSeenCount, thresholdHit, itemAfterHit, pageAfterHit>>
    /\ UNCHANGED <<pipelineVars, fpVars, ingestVars, guardVars, callVars,
                   schedVars, raceVars, dgVars, bgVars, ckVars>>

\* crawl_bg.py:365-366: the range is used up, or the stop flag is set.
QueryEnd ==
    /\ crawlPc = "fetch"
    /\ stop_flag \/ page_num >= MAX_PAGES_PER_QUERY
    /\ crawlPc' = "done"
    /\ UNCHANGED <<seen_pids, stop_flag, page_num, rest, shortPage,
                   current_consecutive_seen_count, streamSeenCount, thresholdHit,
                   itemAfterHit, pageAfterHit>>
    /\ UNCHANGED <<pipelineVars, fpVars, ingestVars, guardVars, callVars,
                   schedVars, raceVars, dgVars, bgVars, ckVars>>

\* The signal handler sets the stop flag while the query runs.
SignalStop ==
    /\ crawlPc # "done"
    /\ ~stop_flag
    /\ stop_flag' = TRUE
    /\ UNCHANGED <<seen_pids, crawlPc, page_num, rest, shortPage,
                   current_consecutive_seen_count, streamSeenCount, thresholdHit,
                   itemAfterHit, pageAfterHit>>
    /\ UNCHANGED <<pipelineVars, fpVars, ingestVars, guardVars, callVars,
                   schedVars, raceVars, dgVars, bgVars, ckVars>>

-----------------------------------------------------------------------------
(* The accessory classifier of the three crawlers. *)

IsSpace(c) == c \in {9, 10, 11, 12, 13, 32}
Lower(c) == IF c >= 65 /\ c <= 90 THEN c + 32 ELSE c

\* crawl_bg.py:62, crawl_dg.py:50, crawl_jg.py:76-77
norm(str) ==
    LET kept == SelectSeq(str, LAMBDA c : ~IsSpace(c)) IN
    [i \in 1..Len(kept) |-> Lower(kept[i])]

\* crawl_bg.py:63-64, crawl_dg.py:51-52, crawl_jg.py:80-82
contains_any(text, kws) ==
    LET t == norm(text) IN \E k \in kws : Contains(t, norm(k))

\* dict.get(category_id, [])
GetList(table, category_id) ==
    IF category_id \in DOMAIN table THEN table[category_id] ELSE {}

\* crawl_bg.py:67-73
bg_ACCESSORY_CORE ==
    (IPHONE :> { <<52992, 51060, 49828>>, <<54596, 47492>>, <<48372, 54840, 54596, 47492>>, <<44053,
        54868, 50976, 47532>>, <<52649, 51204, 44592>>, <<50612, 45841, 53552>>, <<52992, 51060,
        48660>> })
    @@ (IPAD :> { <<52992, 51060, 49828>>, <<52964, 48260>>, <<54260, 47532, 50724>>, <<53412, 48372,
        46300>>, <<54172, 49836, 54017>>, <<54596, 47492>>, <<52649, 51204, 44592>> })
    @@ (MACBOOK :> { <<54028, 50864, 52824>>, <<49836, 47532, 48652>>, <<52992, 51060, 49828>>, <<53412,
        49828, 53416>>, <<54596, 47492>>, <<46021>>, <<54728, 48652>>, <<50612, 45841, 53552>>,
        <<52649, 51204, 44592>> })
    @@ (WATCH :> { <<48180, 46300>>, <<49828, 53944, 47017>>, <<52992, 51060, 49828>>, <<48276, 54140>>,
        <<48372, 54840, 54596, 47492>>, <<52649, 51204, 44592>>, <<52649, 51204, 46021>> })
    @@ (AIRPODS :> { <<52992, 51060, 49828>>, <<53412, 47553>>, <<51060, 50612, 54017>>, <<54268, 54017>>,
        <<49828, 53944, 47017>>, <<52649, 51204, 44592>>, <<52649, 51204, 52992, 51060, 49828>> })

\* crawl_bg.py:74-80
bg_DEVICE_STRONG_HINTS ==
    (IPHONE :> { <<48376, 52404>>, <<54400, 48149, 49828>>, <<51088, 44553, 51228>>, <<48120, 44060,
        48393>>, <<47532, 54140>>, <<44277, 44592, 44228>>, <<48176, 53552, 47532, 49457,
        45733>>, <<49, 50, 56, 103, 98>>, <<50, 53, 54, 103, 98>>, <<53, 49, 50, 103, 98>>,
        <<49, 116, 98>> })
    @@ (IPAD :> { <<48376, 52404>>, <<54400, 48149, 49828>>, <<51088, 44553, 51228>>, <<48120, 44060,
        48393>>, <<119, 105, 102, 105>>, <<99, 101, 108, 108, 117, 108, 97, 114>>, <<49, 49,
        54805>>, <<49, 50, 46, 57>> })
    @@ (MACBOOK :> { <<48376, 52404>>, <<54400, 48149, 49828>>, <<109, 49>>, <<109, 50>>, <<109, 51>>, <<105,
        110, 116, 101, 108>>, <<114, 97, 109>>, <<115, 115, 100>>, <<49, 51, 51064, 52824>>,
        <<49, 52, 51064, 52824>>, <<49, 54, 51064, 52824>> })
    @@ (WATCH :> { <<48376, 52404>>, <<54400, 48149, 49828>>, <<50872, 53944, 46972>>, <<115, 101>>, <<103,
        112, 115>>, <<99, 101, 108, 108, 117, 108, 97, 114>>, <<52, 49, 109, 109>>, <<52, 53,
        109, 109>> })
    @@ (AIRPODS :> { <<48376, 52404>>, <<52649, 51204, 52992, 51060, 49828, 32, 54252, 54632>>, <<48120,
        44060, 48393>>, <<51221, 54408>> })

\* crawl_bg.py:81-81
bg_ACCESSORY_ONLY_HINTS ==
    { <<51204, 50857>>, <<54840, 54872>>, <<102, 111, 114>>, <<50857>>, <<45800, 54408>>,
      <<52992, 51060, 49828, 47564>>, <<54596, 47492, 47564>>, <<49828, 53944, 47017, 47564>>,
      <<48180, 46300, 47564>> }

\* crawl_bg.py:82-82
bg_INCLUSION_PHRASES ==
    { <<52992, 51060, 49828, 32, 54252, 54632>>, <<54596, 47492, 32, 48512, 52265>>, <<49324,
      51008, 54408>>, <<45924, 51004, 47196>>, <<51613, 51221>> }

\* crawl_dg.py:55-69
dg_ACCESSORY_CORE ==
    (IPHONE :> { <<52992, 51060, 49828>>, <<48276, 54140>>, <<51236, 47532>>, <<49892, 47532, 53080>>,
        <<54596, 47492>>, <<48372, 54840, 54596, 47492>>, <<44053, 54868, 50976, 47532>>,
        <<44144, 52824, 45824>>, <<49828, 53472, 46300>>, <<54045, 49548, 53011>>, <<47553>>,
        <<49828, 53944, 47017>>, <<52649, 51204, 44592>>, <<52992, 51060, 48660>>, <<46972,
        51060, 53944, 45789>>, <<116, 121, 112, 101, 45, 99>>, <<50612, 45841, 53552>>, <<48176,
        53552, 47532, 54057>>, <<48372, 51312, 48176, 53552, 47532>>, <<47924, 49440, 52649,
        51204, 44592>>, <<46020, 53433>>, <<46020, 53433, 49828, 53580, 51060, 49496>>, <<109,
        97, 103, 115, 97, 102, 101, 32, 99, 97, 115, 101>>, <<109, 97, 103, 110, 101, 116, 105,
        99, 32, 99, 97, 115, 101>>, <<99, 97, 115, 101>>, <<98, 117, 109, 112, 101, 114>>,
        <<106, 101, 108, 108, 121>>, <<115, 105, 108, 105, 99, 111, 110, 101>>, <<102, 105, 108,
        109>>, <<112, 114, 111, 116, 101, 99, 116, 111, 114>>, <<115, 99, 114, 101, 101, 110,
        32, 112, 114, 111, 116, 101, 99, 116, 111, 114>>, <<104, 111, 108, 100, 101, 114>>,
        <<100, 111, 99, 107>>, <<99, 104, 97, 114, 103, 101, 114>>, <<99, 97, 98, 108, 101>>,
        <<97, 100, 97, 112, 116, 101, 114>> })
    @@ (IPAD :> { <<52992, 51060, 49828>>, <<52964, 48260>>, <<49828, 47560, 53944, 52964, 48260>>,
        <<54260, 47532, 50724>>, <<53412, 48372, 46300, 52992, 51060, 49828>>, <<53412, 48372,
        46300>>, <<54172, 49836, 54017>>, <<54172, 52489>>, <<54596, 47492>>, <<44053, 54868,
        50976, 47532>>, <<44144, 52824, 45824>>, <<49828, 53472, 46300>>, <<53356, 47000,
        46308>>, <<52649, 51204, 44592>>, <<52992, 51060, 48660>>, <<112, 97, 112, 101, 114,
        108, 105, 107, 101>>, <<115, 109, 97, 114, 116, 32, 99, 111, 118, 101, 114>>, <<102,
        111, 108, 105, 111>>, <<112, 101, 110, 99, 105, 108, 32, 116, 105, 112>>, <<104, 111,
        108, 100, 101, 114>>, <<100, 111, 99, 107>>, <<115, 116, 97, 110, 100>>, <<99, 104, 97,
        114, 103, 101, 114>> })
    @@ (MACBOOK :> { <<54028, 50864, 52824>>, <<49836, 47532, 48652>>, <<52992, 51060, 49828>>, <<54616,
        46300, 52992, 51060, 49828>>, <<53412, 49828, 53416>>, <<53412, 48372, 46300, 32, 49828,
        53416>>, <<53412, 52897>>, <<54596, 47492>>, <<44053, 54868, 50976, 47532>>, <<49828,
        53472, 46300>>, <<44144, 52824, 45824>>, <<46021>>, <<54728, 48652>>, <<117, 115, 98,
        32, 54728, 48652>>, <<116, 121, 112, 101, 45, 99, 32, 54728, 48652>>, <<46020, 53433,
        49828, 53580, 51060, 49496>>, <<50612, 45841, 53552>>, <<52649, 51204, 44592>>, <<50672,
        51109, 52992, 51060, 48660>>, <<53224, 47084>>, <<53224, 47553, 54056, 46300>>, <<115,
        108, 101, 101, 118, 101>>, <<112, 111, 117, 99, 104>>, <<115, 104, 101, 108, 108, 32,
        99, 97, 115, 101>>, <<107, 101, 121, 98, 111, 97, 114, 100, 32, 99, 111, 118, 101,
        114>>, <<100, 111, 99, 107>>, <<104, 117, 98>>, <<97, 100, 97, 112, 116, 101, 114>>,
        <<115, 116, 97, 110, 100>>, <<99, 111, 111, 108, 101, 114>> })
    @@ (WATCH :> { <<48180, 46300>>, <<49828, 53944, 47017>>, <<44032, 51453, 48180, 46300>>, <<47700,
        53448, 48180, 46300>>, <<45208, 51060, 53412, 48180, 46300>>, <<52992, 51060, 49828>>,
        <<48276, 54140>>, <<48372, 54840, 54596, 47492>>, <<44053, 54868, 50976, 47532>>,
        <<52649, 51204, 44592>>, <<52649, 51204, 46021>>, <<52649, 51204, 49828, 53472, 46300>>,
        <<98, 97, 110, 100>>, <<115, 116, 114, 97, 112>>, <<108, 111, 111, 112>>, <<108, 105,
        110, 107>>, <<99, 97, 115, 101>>, <<98, 117, 109, 112, 101, 114>>, <<102, 105, 108,
        109>>, <<99, 104, 97, 114, 103, 101, 114>>, <<100, 111, 99, 107>>, <<115, 116, 97, 110,
        100>> })
    @@ (AIRPODS :> { <<52992, 51060, 49828>>, <<49892, 47532, 53080, 52992, 51060, 49828>>, <<54616, 46300,
        52992, 51060, 49828>>, <<44032, 51453, 52992, 51060, 49828>>, <<53412, 47553>>, <<51060,
        50612, 54017>>, <<54268, 54017>>, <<49828, 53944, 47017>>, <<52649, 51204, 44592>>,
        <<52649, 51204, 52992, 51060, 48660>>, <<52649, 51204, 52992, 51060, 49828, 40, 48712,
        32, 52992, 51060, 49828, 41>>, <<48372, 54840, 54596, 47492>>, <<99, 97, 115, 101>>,
        <<116, 105, 112>>, <<101, 97, 114, 32, 116, 105, 112>>, <<102, 111, 97, 109, 32, 116,
        105, 112>>, <<115, 116, 114, 97, 112>>, <<99, 104, 97, 114, 103, 101, 114>> })

\* crawl_dg.py:70-80
dg_DEVICE_STRONG_HINTS ==
    (IPHONE :> { <<48376, 52404>>, <<54400, 48149, 49828>>, <<50689, 49688, 51613>>, <<51088, 44553,
        51228>>, <<48120, 44060, 48393>>, <<47532, 54140>>, <<44277, 44592, 44228>>, <<51221,
        54408, 46321, 47197>>, <<50500, 51060, 53364, 46972, 50864, 46300>>, <<105, 99, 108,
        111, 117, 100>>, <<48176, 53552, 47532, 49457, 45733>>, <<48176, 53552, 47532, 32,
        49324, 51060, 53364>>, <<49324, 51060, 53364>>, <<44060, 53685>>, <<50976, 49900>>,
        <<50857, 47049>>, <<49, 50, 56, 103, 98>>, <<50, 53, 54, 103, 98>>, <<53, 49, 50, 103,
        98>>, <<49, 116, 98>> })
    @@ (IPAD :> { <<48376, 52404>>, <<54400, 48149, 49828>>, <<50689, 49688, 51613>>, <<51088, 44553,
        51228>>, <<48120, 44060, 48393>>, <<47532, 54140>>, <<119, 105, 102, 105>>, <<99, 101,
        108, 108, 117, 108, 97, 114>>, <<108, 116, 101>>, <<50857, 47049>>, <<49, 50, 56, 103,
        98>>, <<50, 53, 54, 103, 98>>, <<53, 49, 50, 103, 98>>, <<49, 116, 98>>, <<50, 116,
        98>>, <<49, 49, 54805>>, <<49, 50, 46, 57>>, <<49, 48, 46, 57>>, <<49, 48, 46, 50>>,
        <<57, 46, 55>> })
    @@ (MACBOOK :> { <<48376, 52404>>, <<54400, 48149, 49828>>, <<50689, 49688, 51613>>, <<109, 49>>, <<109,
        50>>, <<109, 51>>, <<105, 110, 116, 101, 108>>, <<105, 53>>, <<105, 55>>, <<114, 97,
        109>>, <<115, 115, 100>>, <<48176, 53552, 47532, 32, 49324, 51060, 53364>>, <<49324,
        51060, 53364>>, <<49, 51, 51064, 52824>>, <<49, 52, 51064, 52824>>, <<49, 53, 51064,
        52824>>, <<49, 54, 51064, 52824>> })
    @@ (WATCH :> { <<48376, 52404>>, <<54400, 48149, 49828>>, <<50872, 53944, 46972>>, <<115, 101>>, <<103,
        112, 115>>, <<99, 101, 108, 108, 117, 108, 97, 114>>, <<45208, 51060, 53412>>, <<52, 49,
        109, 109>>, <<52, 53, 109, 109>>, <<52, 57, 109, 109>>, <<52, 48, 109, 109>>, <<52, 52,
        109, 109>>, <<115, 116, 97, 105, 110, 108, 101, 115, 115>>, <<97, 108, 117, 109, 105,
        110, 117, 109>>, <<54000, 53440, 45700>> })
    @@ (AIRPODS :> { <<48376, 52404>>, <<52649, 51204, 52992, 51060, 49828, 32, 54252, 54632>>, <<48120,
        44060, 48393>>, <<51221, 54408, 32, 46321, 47197>>, <<51221, 54408, 32, 49884, 47532,
        50620>>, <<49884, 47532, 50620>>, <<99, 97, 115, 101, 32, 54252, 54632>> })

\* crawl_dg.py:82-83
dg_ACCESSORY_ONLY_HINTS ==
    { <<51204, 50857>>, <<54840, 54872>>, <<102, 111, 114>>, <<50857>>, <<45800, 54408>>,
      <<52992, 51060, 49828, 47564>>, <<54596, 47492, 47564>>, <<49828, 53944, 47017, 47564>>,
      <<48180, 46300, 47564>>, <<52992, 51060, 48660, 47564>>, <<52649, 51204, 52992, 51060,
      49828, 32, 45800, 54408>>, <<52649, 51204, 44592, 47564>>, <<54728, 48652, 47564>>,
      <<46021, 47564>>, <<115, 116, 97, 110, 100, 32, 111, 110, 108, 121>>, <<99, 97, 115, 101,
      32, 111, 110, 108, 121>>, <<98, 97, 110, 100, 32, 111, 110, 108, 121>> }

\* crawl_dg.py:85-85
dg_INCLUSION_PHRASES ==
    { <<52992, 51060, 49828, 32, 54252, 54632>>, <<54596, 47492, 32, 48512, 52265>>, <<54596,
      47492, 32, 48537, 51076>>, <<49324, 51008, 54408>>, <<45924, 51004, 47196>>, <<51613,
      51221>>, <<52992, 51060, 49828, 32, 46300, 47548>>, <<54596, 47492, 32, 46300, 47548>> }

\* crawl_jg.py:85-104
jg_ACCESSORY_CORE ==
    (IPHONE :> { <<52992, 51060, 49828>>, <<48276, 54140>>, <<51236, 47532>>, <<49892, 47532, 53080>>,
        <<54596, 47492>>, <<48372, 54840, 54596, 47492>>, <<44053, 54868, 50976, 47532>>,
        <<44144, 52824, 45824>>, <<49828, 53472, 46300>>, <<54045, 49548, 53011>>, <<47553>>,
        <<49828, 53944, 47017>>, <<52649, 51204, 44592>>, <<52992, 51060, 48660>>, <<46972,
        51060, 53944, 45789>>, <<116, 121, 112, 101, 45, 99>>, <<50612, 45841, 53552>>, <<48176,
        53552, 47532, 54057>>, <<48372, 51312, 48176, 53552, 47532>>, <<47924, 49440, 52649,
        51204, 44592>>, <<46020, 53433>>, <<46020, 53433, 49828, 53580, 51060, 49496>>, <<109,
        97, 103, 115, 97, 102, 101, 32, 99, 97, 115, 101>>, <<109, 97, 103, 110, 101, 116, 105,
        99, 32, 99, 97, 115, 101>>, <<99, 97, 115, 101>>, <<98, 117, 109, 112, 101, 114>>,
        <<106, 101, 108, 108, 121>>, <<115, 105, 108, 105, 99, 111, 110, 101>>, <<102, 105, 108,
        109>>, <<112, 114, 111, 116, 101, 99, 116, 111, 114>>, <<115, 99, 114, 101, 101, 110,
        32, 112, 114, 111, 116, 101, 99, 116, 111, 114>>, <<104, 111, 108, 100, 101, 114>>,
        <<100, 111, 99, 107>>, <<99, 104, 97, 114, 103, 101, 114>>, <<99, 97, 98, 108, 101>>,
        <<97, 100, 97, 112, 116, 101, 114>> })
    @@ (IPAD :> { <<52992, 51060, 49828>>, <<52964, 48260>>, <<49828, 47560, 53944, 52964, 48260>>,
        <<54260, 47532, 50724>>, <<53412, 48372, 46300, 52992, 51060, 49828>>, <<53412, 48372,
        46300>>, <<54172, 49836, 54017>>, <<54172, 52489>>, <<54596, 47492>>, <<44053, 54868,
        50976, 47532>>, <<44144, 52824, 45824>>, <<49828, 53472, 46300>>, <<53356, 47000,
        46308>>, <<52649, 51204, 44592>>, <<52992, 51060, 48660>>, <<112, 97, 112, 101, 114,
        108, 105, 107, 101>>, <<115, 109, 97, 114, 116, 32, 99, 111, 118, 101, 114>>, <<102,
        111, 108, 105, 111>>, <<112, 101, 110, 99, 105, 108, 32, 116, 105, 112>>, <<104, 111,
        108, 100, 101, 114>>, <<100, 111, 99, 107>>, <<115, 116, 97, 110, 100>>, <<99, 104, 97,
        114, 103, 101, 114>> })
    @@ (MACBOOK :> { <<54028, 50864, 52824>>, <<49836, 47532, 48652>>, <<52992, 51060, 49828>>, <<54616,
        46300, 52992, 51060, 49828>>, <<53412, 49828, 53416>>, <<53412, 48372, 46300, 32, 49828,
        53416>>, <<53412, 52897>>, <<54596, 47492>>, <<44053, 54868, 50976, 47532>>, <<49828,
        53472, 46300>>, <<44144, 52824, 45824>>, <<46021>>, <<54728, 48652>>, <<117, 115, 98,
        32, 54728, 48652>>, <<116, 121, 112, 101, 45, 99, 32, 54728, 48652>>, <<46020, 53433,
        49828, 53580, 51060, 49496>>, <<50612, 45841, 53552>>, <<52649, 51204, 44592>>, <<50672,
        51109, 52992, 51060, 48660>>, <<53224, 47084>>, <<53224, 47553, 54056, 46300>>, <<115,
        108, 101, 101, 118, 101>>, <<112, 111, 117, 99, 104>>, <<115, 104, 101, 108, 108, 32,
        99, 97, 115, 101>>, <<107, 101, 121, 98, 111, 97, 114, 100, 32, 99, 111, 118, 101,
        114>>, <<100, 111, 99, 107>>, <<104, 117, 98>>, <<97, 100, 97, 112, 116, 101, 114>>,
        <<115, 116, 97, 110, 100>>, <<99, 111, 111, 108, 101, 114>> })
    @@ (WATCH :> { <<48180, 46300>>, <<49828, 53944, 47017>>, <<44032, 51453, 48180, 46300>>, <<47700,
        53448, 48180, 46300>>, <<45208, 51060, 53412, 48180, 46300>>, <<52992, 51060, 49828>>,
        <<48276, 54140>>, <<48372, 54840, 54596, 47492>>, <<44053, 54868, 50976, 47532>>,
        <<52649, 51204, 44592>>, <<52649, 51204, 46021>>, <<52649, 51204, 49828, 53472, 46300>>,
        <<98, 97, 110, 100>>, <<115, 116, 114, 97, 112>>, <<108, 111, 111, 112>>, <<108, 105,
        110, 107>>, <<99, 97, 115, 101>>, <<98, 117, 109, 112, 101, 114>>, <<102, 105, 108,
        109>>, <<99, 104, 97, 114, 103, 101, 114>>, <<100, 111, 99, 107>>, <<115, 116, 97, 110,
        100>> })
    @@ (AIRPODS :> { <<52992, 51060, 49828>>, <<49892, 47532, 53080, 52992, 51060, 49828>>, <<54616, 46300,
        52992, 51060, 49828>>, <<44032, 51453, 52992, 51060, 49828>>, <<53412, 47553>>, <<51060,
        50612, 54017>>, <<54268, 54017>>, <<49828, 53944, 47017>>, <<52649, 51204, 44592>>,
        <<52649, 51204, 52992, 51060, 48660>>, <<52649, 51204, 52992, 51060, 49828, 40, 48712,
        32, 52992, 51060, 49828, 41>>, <<48372, 54840, 54596, 47492>>, <<99, 97, 115, 101>>,
        <<116, 105, 112>>, <<101, 97, 114, 32, 116, 105, 112>>, <<102, 111, 97, 109, 32, 116,
        105, 112>>, <<115, 116, 114, 97, 112>>, <<99, 104, 97, 114, 103, 101, 114>> })

\* crawl_jg.py:106-116
jg_DEVICE_STRONG_HINTS ==
    (IPHONE :> { <<48376, 52404>>, <<54400, 48149, 49828>>, <<50689, 49688, 51613>>, <<51088, 44553,
        51228>>, <<48120, 44060, 48393>>, <<47532, 54140>>, <<44277, 44592, 44228>>, <<51221,
        54408, 46321, 47197>>, <<50500, 51060, 53364, 46972, 50864, 46300>>, <<105, 99, 108,
        111, 117, 100>>, <<48176, 53552, 47532, 49457, 45733>>, <<48176, 53552, 47532, 32,
        49324, 51060, 53364>>, <<49324, 51060, 53364>>, <<44060, 53685>>, <<50976, 49900>>,
        <<50857, 47049>>, <<49, 50, 56, 103, 98>>, <<50, 53, 54, 103, 98>>, <<53, 49, 50, 103,
        98>>, <<49, 116, 98>> })
    @@ (IPAD :> { <<48376, 52404>>, <<54400, 48149, 49828>>, <<50689, 49688, 51613>>, <<51088, 44553,
        51228>>, <<48120, 44060, 48393>>, <<47532, 54140>>, <<119, 105, 102, 105>>, <<99, 101,
        108, 108, 117, 108, 97, 114>>, <<108, 116, 101>>, <<50857, 47049>>, <<49, 50, 56, 103,
        98>>, <<50, 53, 54, 103, 98>>, <<53, 49, 50, 103, 98>>, <<49, 116, 98>>, <<50, 116,
        98>>, <<49, 49, 54805>>, <<49, 50, 46, 57>>, <<49, 48, 46, 57>>, <<49, 48, 46, 50>>,
        <<57, 46, 55>> })
    @@ (MACBOOK :> { <<48376, 52404>>, <<54400, 48149, 49828>>, <<50689, 49688, 51613>>, <<109, 49>>, <<109,
        50>>, <<109, 51>>, <<105, 110, 116, 101, 108>>, <<105, 53>>, <<105, 55>>, <<114, 97,
        109>>, <<115, 115, 100>>, <<48176, 53552, 47532, 32, 49324, 51060, 53364>>, <<49324,
        51060, 53364>>, <<49, 51, 51064, 52824>>, <<49, 52, 51064, 52824>>, <<49, 53, 51064,
        52824>>, <<49, 54, 51064, 52824>> })
    @@ (WATCH :> { <<48376, 52404>>, <<54400, 48149, 49828>>, <<50872, 53944, 46972>>, <<115, 101>>, <<103,
        112, 115>>, <<99, 101, 108, 108, 117, 108, 97, 114>>, <<45208, 51060, 53412>>, <<52, 49,
        109, 109>>, <<52, 53, 109, 109>>, <<52, 57, 109, 109>>, <<52, 48, 109, 109>>, <<52, 52,
        109, 109>>, <<115, 116, 97, 105, 110, 108, 101, 115, 115>>, <<97, 108, 117, 109, 105,
        110, 117, 109>>, <<54000, 53440, 45700>> })
    @@ (AIRPODS :> { <<48376, 52404>>, <<52649, 51204, 52992, 51060, 49828, 32, 54252, 54632>>, <<48120,
        44060, 48393>>, <<51221, 54408, 32, 46321, 47197>>, <<51221, 54408, 32, 49884, 47532,
        50620>>, <<49884, 47532, 50620>>, <<99, 97, 115, 101, 32, 54252, 54632>> })

\* crawl_jg.py:118-123
jg_ACCESSORY_ONLY_HINTS ==
    { <<51204, 50857>>, <<54840, 54872>>, <<102, 111, 114>>, <<50857>>, <<45800, 54408>>,
      <<52992, 51060, 49828, 47564>>, <<54596, 47492, 47564>>, <<49828, 53944, 47017, 47564>>,
      <<48180, 46300, 47564>>, <<52992, 51060, 48660, 47564>>, <<52649, 51204, 52992, 51060,
      49828, 32, 45800, 54408>>, <<52649, 51204, 44592, 47564>>, <<54728, 48652, 47564>>,
      <<46021, 47564>>, <<115, 116, 97, 110, 100, 32, 111, 110, 108, 121>>, <<99, 97, 115, 101,
      32, 111, 110, 108, 121>>, <<98, 97, 110, 100, 32, 111, 110, 108, 121>> }

\* crawl_jg.py:125-128
jg_INCLUSION_PHRASES ==
    { <<52992, 51060, 49828, 32, 54252, 54632>>, <<54596, 47492, 32, 48512, 52265>>, <<54596,
      47492, 32, 48537, 51076>>, <<49324, 51008, 54408>>, <<45924, 51004, 47196>>, <<51613,
      51221>>, <<52992, 51060, 49828, 32, 46300, 47548>>, <<54596, 47492, 32, 46300, 47548>> }

\* crawl_bg.py:34, crawl_dg.py:26
ENABLE_TITLE_FILTER == TRUE

\* price < max(50_000, baseline_mean * 0.25), for a whole-numbered mean
BelowQuarterOfMean(price, baseline_mean) ==
    IF baseline_mean > 200000 THEN 4 * price < baseline_mean ELSE price < 50000

\* crawl_bg.py:91-99
bg_is_accessory_title(title, category_id, price, baseline_mean) ==
    IF ~ENABLE_TITLE_FILTER \/ title = <<>> THEN FALSE
    ELSE LET t == norm(title) IN
         IF ~contains_any(t, GetList(bg_ACCESSORY_CORE, category_id)) THEN FALSE
         ELSE IF contains_any(t, bg_INCLUSION_PHRASES) THEN FALSE
         ELSE IF contains_any(t, bg_ACCESSORY_ONLY_HINTS) THEN TRUE
         ELSE IF contains_any(t, GetList(bg_DEVICE_STRONG_HINTS, category_id)) THEN FALSE
         ELSE IF price # Null /\ baseline_mean \notin {Null, 0}
                 /\ BelowQuarterOfMean(price, baseline_mean) THEN TRUE
         ELSE TRUE

\* crawl_dg.py:107-115
dg_is_accessory_title(title, category_id, price, baseline_mean) ==
    IF ~ENABLE_TITLE_FILTER \/ title = <<>> THEN FALSE
    ELSE LET t == norm(title) IN
         IF ~contains_any(t, GetList(dg_ACCESSORY_CORE, category_id)) THEN FALSE
         ELSE IF contains_any(t, dg_INCLUSION_PHRASES) THEN FALSE
         ELSE IF contains_any(t, dg_ACCESSORY_ONLY_HINTS) THEN TRUE
         ELSE IF contains_any(t, GetList(dg_DEVICE_STRONG_HINTS, category_id)) THEN FALSE
         ELSE IF price # Null /\ baseline_mean \notin {Null, 0}
                 /\ BelowQuarterOfMean(price, baseline_mean) THEN TRUE
         ELSE TRUE

\* crawl_jg.py:131-165
jg_is_accessory_title(title, category_id, price, baseline_mean) ==
    IF title = <<>> THEN FALSE
    ELSE IF ~contains_any(title, GetList(jg_ACCESSORY_CORE, category_id)) THEN FALSE
    ELSE IF contains_any(title, jg_INCLUSION_PHRASES) THEN FALSE
    ELSE IF contains_any(title, jg_ACCESSORY_ONLY_HINTS) THEN TRUE
    ELSE IF contains_any(title, GetList(jg_DEVICE_STRONG_HINTS, category_id)) THEN FALSE
    ELSE IF price # Null /\ baseline_mean \notin {Null, 0}
            /\ BelowQuarterOfMean(price, baseline_mean) THEN TRUE
    ELSE TRUE

\* Titles of listings: a case only, a device, a case, a device with a case thrown
\* in, a device and a case, a case in Latin letters, a capacity word, no title.
AccessoryTitles ==
    { <<50500, 51060, 54256, 32, 49, 51, 32, 52992, 51060, 49828, 32, 51204, 50857>>,
      <<50500, 51060, 54256, 32, 49, 51, 32, 48376, 52404, 32, 49, 50, 56, 71, 66, 32,
        48120, 44060, 48393>>,
      <<50500, 51060, 54256, 32, 49, 51, 32, 52992, 51060, 49828>>,
      <<50500, 51060, 54256, 32, 49, 51, 32, 48376, 52404, 32, 52992, 51060, 49828, 32,
        54252, 54632>>,
      <<50500, 51060, 54256, 32, 49, 51, 32, 48376, 52404, 32, 52992, 51060, 49828>>,
      <<50500, 51060, 54256, 32, 49, 51, 32, 67, 97, 115, 101, 32, 50, 53, 54, 71, 66>>,
      <<50500, 51060, 54256, 32, 49, 50, 56, 71, 66, 32, 50857, 47049, 32, 52992, 51060,
        49828>>,
      <<>> }

AccessoryPrices == {Null, 10000, 60000, 500000}
AccessoryMeans == {Null, 0, 100000, 600000}

AccessoryCall ==
    /\ callOut = <<>>
    /\ callOut' =
          [bg |-> bg_is_accessory_title(callIn.title, callIn.category_id, callIn.price,
                                        callIn.baseline_mean),
           dg |-> dg_is_accessory_title(callIn.title, callIn.category_id, callIn.price,
                                        callIn.baseline_mean),
           jg |-> jg_is_accessory_title(callIn.title, callIn.category_id, callIn.price,
                                        callIn.baseline_mean)]
    /\ UNCHANGED <<pipelineVars, fpVars, ingestVars, guardVars, crawlVars, callIn,
                   schedVars, raceVars, dgVars, bgVars, ckVars>>

-----------------------------------------------------------------------------
(* The crawl scheduler: app/core/scheduler.py.                             *)
(* APScheduler keeps the count of running instances of a job in the        *)
(* executor of the scheduler object that submitted it; shutdown(wait=False)*)
(* stops the scheduler and returns while a submitted job keeps running.    *)

\* config.py:8
SCHED_ENABLE == TRUE

\* scheduler.py:58
max_instances == 1

\* instances of the job that the executor of scheduler object s is running
Instances(s) == IF executing[s] = "none" THEN 0 ELSE 1

\* scheduler.py:31-64
start_scheduler ==
    /\ IF ~SCHED_ENABLE
       THEN UNCHANGED schedVars
       ELSE IF scheduler # 0 /\ scheduler \in running
       THEN UNCHANGED schedVars
       ELSE /\ nextScheduler <= MaxSchedulers
            /\ scheduler' = nextScheduler
            /\ nextScheduler' = nextScheduler + 1
            /\ executing' = Append(executing, "none")
            /\ running' = running \cup {nextScheduler}
    /\ UNCHANGED <<pipelineVars, fpVars, ingestVars, guardVars, crawlVars, callVars, raceVars, dgVars, bgVars, ckVars>>

\* scheduler.py:66-72
stop_scheduler ==
    /\ IF scheduler # 0 /\ scheduler \in running
       THEN /\ running' = running \ {scheduler}
            /\ scheduler' = 0
            /\ UNCHANGED <<nextScheduler, executing>>
       ELSE UNCHANGED schedVars
    /\ UNCHANGED <<pipelineVars, fpVars, ingestVars, guardVars, crawlVars, callVars, raceVars, dgVars, bgVars, ckVars>>

\* The cron trigger of a running scheduler fires (scheduler.py:53-61): the job is
\* submitted unless max_instances of it are running in that scheduler's executor.
CronFire ==
    /\ \E s \in running :
         IF Instances(s) >= max_instances
         THEN UNCHANGED executing
         ELSE executing' = [executing EXCEPT ![s] = "run_crawler"]
    /\ UNCHANGED <<scheduler, running, nextScheduler>>
    /\ UNCHANGED <<pipelineVars, fpVars, ingestVars, guardVars, crawlVars, callVars, raceVars, dgVars, bgVars, ckVars>>

\* crawl_and_update, scheduler.py:21-22: run_crawler returns, or raises and the
\* exception is logged (scheduler.py:28-29)
CrawlerEnds ==
    /\ \E s \in DOMAIN executing :
         /\ executing[s] = "run_crawler"
         /\ \E raised \in BOOLEAN :
              executing' = [executing EXCEPT
                              ![s] = IF raised THEN "none" ELSE "run_sku_generation"]
    /\ UNCHANGED <<scheduler, running, nextScheduler>>
    /\ UNCHANGED <<pipelineVars, fpVars, ingestVars, guardVars, crawlVars, callVars, raceVars, dgVars, bgVars, ckVars>>

\* crawl_and_update, scheduler.py:24-29: run_sku_generation returns or raises
SkuGenerationEnds ==
    /\ \E s \in DOMAIN executing :
         /\ executing[s] = "run_sku_generation"
         /\ executing' = [executing EXCEPT ![s] = "none"]
    /\ UNCHANGED <<scheduler, running, nextScheduler>>
    /\ UNCHANGED <<pipelineVars, fpVars, ingestVars, guardVars, crawlVars, callVars, raceVars, dgVars, bgVars, ckVars>>

\* the crawl_and_update executions in progress
InProgress == {s \in DOMAIN executing : executing[s] # "none"}

-----------------------------------------------------------------------------
(* Pipeline runs resolving SKUs at the same time, each on its own           *)
(* connection: sku_pipline.py:226-244 and get_or_create_sku, 111-143.       *)
(* A statement sees what was committed before it (READ COMMITTED); the      *)
(* INSERT and its commit are one step, since a second INSERT of a key that  *)
(* an open transaction holds waits for that transaction to end.             *)

Runs == 1..MaxRuns

RaceAttributes == {<< <<S_model, S_X>> >>, << <<S_model, S_Y>> >>}

RaceKeys == [category_id : Categories, attributes : RaceAttributes]

RunFingerprint(p) == generate_fingerprint(runKey[p].attributes)

\* sku_pipline.py:226-240: the SELECT of the loop
RunLoopSelect(p) ==
    /\ runPc[p] = "loop"
    /\ LET result == SelectSku(runKey[p].category_id, RunFingerprint(p)) IN
       IF result # {}
       THEN /\ runGot' = [runGot EXCEPT ![p] = (CHOOSE r \in result : TRUE).sku_id]
            /\ runPc' = [runPc EXCEPT ![p] = "done"]
       ELSE /\ runPc' = [runPc EXCEPT ![p] = "get_or_create_sku"]
            /\ UNCHANGED runGot
    /\ UNCHANGED <<pipelineVars, fpVars, ingestVars, guardVars, crawlVars, callVars,
                   schedVars, dgVars, bgVars, ckVars, runKey>>

\* sku_pipline.py:118-128: the SELECT of get_or_create_sku
RunSelect(p) ==
    /\ runPc[p] = "get_or_create_sku"
    /\ LET result == SelectSku(runKey[p].category_id, RunFingerprint(p)) IN
       IF result # {}
       THEN /\ runGot' = [runGot EXCEPT ![p] = (CHOOSE r \in result : TRUE).sku_id]
            /\ runPc' = [runPc EXCEPT ![p] = "done"]
       ELSE /\ runPc' = [runPc EXCEPT ![p] = "insert"]
            /\ UNCHANGED runGot
    /\ UNCHANGED <<pipelineVars, fpVars, ingestVars, guardVars, crawlVars, callVars,
                   schedVars, dgVars, bgVars, ckVars, runKey>>

\* sku_pipline.py:130-143: INSERT, commit, save_sku_attributes.  A violated unique
\* constraint raises out of get_or_create_sku and generate_skus_for_all_items
\* (sku_pipline.py:255-256 only closes the connection).
RunInsert(p) ==
    /\ runPc[p] = "insert"
    /\ IF SkuUniqueViolated(runKey[p].category_id, RunFingerprint(p))
       THEN /\ runPc' = [runPc EXCEPT ![p] = "raised"]
            /\ UNCHANGED <<sku, sku_attribute, nextSkuId, runGot>>
       ELSE /\ sku' = sku \cup {[sku_id |-> nextSkuId,
                                 category_id |-> runKey[p].category_id,
                                 fingerprint |-> RunFingerprint(p)]}
            /\ nextSkuId' = nextSkuId + 1
            /\ sku_attribute' = save_sku_attributes(sku_attribute, nextSkuId,
                                                    runKey[p].attributes)
            /\ runGot' = [runGot EXCEPT ![p] = nextSkuId]
            /\ runPc' = [runPc EXCEPT ![p] = "done"]
    /\ UNCHANGED <<now, itemVars, genVars, statVars, fpVars, ingestVars, guardVars,
                   crawlVars, callVars, schedVars, dgVars, bgVars, ckVars, runKey>>

-----------------------------------------------------------------------------
(* fetch_price_trend: services/analytics.py:371-467.  Time is counted in    *)
(* days; bucket_ts is the day of a bucket, today the day of the request.    *)

\* round(a / b * 100.0, 2) in hundredths of a percent, for b > 0: the nearest
\* integer to a * 10000 / b, a tie going to the even one.
Round2Percent(a, b) ==
    LET n == a * 10000
        q == n \div b
        r == n % b
    IN  IF 2 * r < b THEN q
        ELSE IF 2 * r > b THEN q + 1
        ELSE IF q % 2 = 0 THEN q ELSE q + 1

\* WHERE of weekly_data: analytics.py:392-393 (city-wide), 426-428 (one region)
TrendScope(table, sku_ids, region_id, today) ==
    {ps \in table :
        /\ ps.sku_id \in sku_ids
        /\ region_id # Null => ps.region_id = region_id
        /\ today - ps.bucket_ts <= 28}

\* CAST((julianday('now') - julianday(ps.bucket_ts)) / 7 AS INTEGER)
weeks_ago(ps, today) == (today - ps.bucket_ts) \div 7

\* ORDER BY weeks_ago ASC
RECURSIVE Ascending(_)
Ascending(S) ==
    IF S = {} THEN <<>>
    ELSE LET m == MinOf(S) IN <<m>> \o Ascending(S \ {m})

\* COALESCE(CAST(SUM(avg_price * items_num) * 1.0 / NULLIF(SUM(items_num), 0)
\* AS INTEGER), 0)
TrendPrice(rows) == IF SumItemsNum(rows) = 0 THEN 0 ELSE WeightedAvgInt(rows)

\* analytics.py:371-467 for a non-empty sku_ids; change_rate in hundredths of a percent
fetch_price_trend(table, sku_ids, region_id, today) ==
    LET weekly_data == TrendScope(table, sku_ids, region_id, today)
        groups == Ascending({weeks_ago(ps, today) : ps \in weekly_data})
        limit == IF Len(groups) < 4 THEN Len(groups) ELSE 4
        rows == [i \in 1..limit |->
                   LET g == {ps \in weekly_data : weeks_ago(ps, today) = groups[i]}
                   IN  [price |-> TrendPrice(g),
                        period |-> MaxOf({ps.bucket_ts : ps \in g})]]
        trend_period == Len(rows)
    IN  [trend_period |-> trend_period,
         change_rate |-> IF trend_period >= 2 /\ rows[1].price > 0
                         THEN Round2Percent(rows[Len(rows)].price - rows[1].price,
                                            rows[1].price)
                         ELSE 0,
         chart_data |-> rows]

TrendToday == 30
TrendDays == {1, 2, 5, 15, 20, 30}
TrendPrices == {0, 40000, 50000}

\* one row of price_stats, of SKU 1 (avg_price in hundredths)
TrendRow(region_id, bucket_ts, price) ==
    [sku_id |-> 1, region_id |-> region_id, bucket_ts |-> bucket_ts,
     avg_price |-> price * 100, items_num |-> 1]

\* tables: any buckets of region 1, and possibly one bucket of region 2
TrendTables ==
    {{TrendRow(1, d, f[d]) : d \in DOMAIN f} \cup other :
        f \in UNION {[D -> TrendPrices] : D \in SUBSET TrendDays},
        other \in {{}, {TrendRow(2, 20, 40000)}}}

TrendCall ==
    /\ callIn # <<>>
    /\ callOut = <<>>
    /\ callOut' = fetch_price_trend(callIn.table, callIn.sku_ids, callIn.region_id,
                                    callIn.today)
    /\ UNCHANGED <<pipelineVars, fpVars, ingestVars, guardVars, crawlVars, callIn,
                   schedVars, raceVars, dgVars, bgVars, ckVars>>

-----------------------------------------------------------------------------
(* run_analytics and fetch_sku_id_with_fingerprint: services/analytics.py   *)
(* 11-100 and 520-537.  A request's spec is payload.spec.dict(): every      *)
(* field of the schema is present, None when not given.                     *)

S_iPhone == <<105, 80, 104, 111, 110, 101>>      \* "iPhone"
S_iPad == <<105, 80, 97, 100>>              \* "iPad"
S_Galaxy == <<71, 97, 108, 97, 120, 121>>       \* "Galaxy"
S_x == <<120>>                            \* "x"
S_Z == <<90>>                             \* "Z"
S_Red == <<82, 101, 100>>                  \* "Red"
S_128GB == <<49, 50, 56, 71, 66>>        \* "128GB"
S_GB == <<71, 66>>                        \* "GB"
S_StorageI == <<115, 116, 111, 114, 97, 103, 101, 61, 105, 58>>   \* "storage=i:"
S_EqO == <<61, 111, 58>>                  \* "=o:"

\* analytics.py:6 (MacBook, AppleWatch and AirPods are not among the products asked for)
PRODUCT2CATEGORY(product) ==
    IF product = S_iPhone THEN 1
    ELSE IF product = S_iPad THEN 2
    ELSE Null

\* str.lower()
LowerStr(str) == [i \in DOMAIN str |-> Lower(str[i])]

\* sorted(spec.items(), key=...), analytics.py:40, for the fields given in the
\* requests modelled; the other fields of the schema are None and are skipped
SpecKeys == <<"color", "model", "storage">>

KeyText(key) ==
    IF key = "color" THEN S_color ELSE IF key = "model" THEN S_model ELSE S_storage

\* attributes JOIN attribute_options: the reference options
attribute_options ==
    { [code |-> S_model, value |-> S_X, option_id |-> 1],
      [code |-> S_model, value |-> S_Y, option_id |-> 2],
      [code |-> S_color, value |-> S_Blue, option_id |-> 3] }

\* analytics.py:62-71
SelectOption(code, value) ==
    {ao \in attribute_options : LowerStr(ao.code) = code /\ LowerStr(ao.value) = value}

\* the loop of analytics.py:42-81 from position i on
RECURSIVE FingerprintConditions(_, _, _, _)
FingerprintConditions(spec, i, conditions, model_name) ==
    IF i > Len(SpecKeys)
    THEN [resolved |-> TRUE, conditions |-> conditions, model_name |-> model_name]
    ELSE LET key == SpecKeys[i]
             value == spec[key]
             named == model_name \o <<Space>> \o value
             code == LowerStr(KeyText(key))
         IN  IF ~Truthy(value)
             THEN FingerprintConditions(spec, i + 1, conditions, model_name)
             ELSE IF code = S_storage
             THEN LET sval == SelectSeq(value, IsDigit) IN
                  IF sval = <<>>
                  THEN FingerprintConditions(spec, i + 1, conditions, named)
                  ELSE FingerprintConditions(spec, i + 1,
                                             Append(conditions, S_StorageI \o sval), named)
             ELSE LET row == SelectOption(code, LowerStr(value)) IN
                  IF row # {}
                  THEN FingerprintConditions(spec, i + 1,
                           Append(conditions,
                                  code \o S_EqO \o IntToStr((CHOOSE ao \in row : TRUE).option_id)),
                           named)
                  ELSE [resolved |-> FALSE, conditions |-> conditions, model_name |-> named]

\* analytics.py:11-100 on a sku table whose fingerprint column is text; what it
\* raises or returns
fetch_sku_id_with_fingerprint(skuTable, product, spec) ==
    IF ~Truthy(spec.model) THEN [kind |-> "raise", error |-> "ValueError"]
    ELSE IF PRODUCT2CATEGORY(product) = Null THEN [kind |-> "raise", error |-> "ValueError"]
    ELSE LET loop == FingerprintConditions(spec, 1, <<>>, product) IN
         IF ~loop.resolved
         THEN [kind |-> "return", sku_ids |-> {}, model_name |-> loop.model_name]
         ELSE LET sku_ids == {r.sku_id : r \in
                                {r \in skuTable :
                                    /\ r.category_id = PRODUCT2CATEGORY(product)
                                    /\ \A c \in DOMAIN loop.conditions :
                                          Contains(r.fingerprint, loop.conditions[c])}}
              IN  IF sku_ids = {} THEN [kind |-> "raise", error |-> "ValueError"]
                  ELSE [kind |-> "return", sku_ids |-> sku_ids,
                        model_name |-> loop.model_name]

\* analytics.py:102-141 for a region without sd and sgg; emd names are Hangul,
\* which lower() leaves as they are.  An absent emd is "".
fetch_region_id(region) ==
    IF region.emd = "" THEN [kind |-> "return", region_id |-> Null, query |-> FALSE]
    ELSE IF \E e \in emd : e.name = region.emd
    THEN [kind |-> "return", query |-> TRUE,
          region_id |-> (CHOOSE e \in emd : e.name = region.emd).region_id]
    ELSE [kind |-> "raise", error |-> "ValueError", query |-> TRUE]

\* analytics.py:520-537: the functions called in turn, the SQL queries that ran
\* (by function), and how the request ended
run_analytics(skuTable, product, spec, region) ==
    LET found == fetch_sku_id_with_fingerprint(skuTable, product, spec) IN
    IF found.kind = "raise"
    THEN [fetch_sku |-> found, queries |-> {}, outcome |-> found.error]
    ELSE
    LET sku_ids == found.sku_ids
        reg == fetch_region_id(region)
        q1 == IF reg.query THEN {"fetch_region_id"} ELSE {}
    IN  IF reg.kind = "raise"
        THEN [fetch_sku |-> found, queries |-> q1, outcome |-> reg.error]
        ELSE
        IF sku_ids = {}
        \* analytics.py:144-152, 249-250 return without a query; 376-377 raises
        THEN [fetch_sku |-> found, queries |-> q1, outcome |-> "HTTP404"]
        ELSE
        IF fetch_summary_info(sku_ids, reg.region_id).status = "404"
        THEN [fetch_sku |-> found, queries |-> q1 \cup {"fetch_summary_info"},
              outcome |-> "HTTP404"]
        ELSE [fetch_sku |-> found,
              queries |-> q1 \cup {"fetch_summary_info", "fetch_regional_analysis",
                                   "fetch_price_trend", "fetch_lowest_listings"},
              outcome |-> "success"]

\* hexdigest renders each hex digit as a character
HexText(fp) == [i \in DOMAIN fp |-> IF fp[i] < 10 THEN 48 + fp[i] ELSE 87 + fp[i]]

\* sku rows as analytics reads them: one written by the pipeline, one whose
\* fingerprint has the form the LIKE patterns look for
AnalyticsSkuRows ==
    { [sku_id |-> 1, category_id |-> 1,
       fingerprint |-> HexText(generate_fingerprint(<< <<S_model, S_X>> >>))],
      [sku_id |-> 2, category_id |-> 1,
       fingerprint |-> <<109, 111, 100, 101, 108, 61, 111, 58, 49, 124, 115, 116, 111, 114, 97, 103, 101, 61, 105, 58, 49, 50, 56>>] }

AnalyticsSpecs ==
    [model : {None, <<>>, S_X, S_x, S_Z}, storage : {None, S_128GB, S_GB},
     color : {None, S_Blue, S_Red}]

AnalyticsProducts == {S_iPhone, S_iPad, S_Galaxy}

AnalyticsRegions == [emd : {"", "yeoksam", "nowhere"}]

AnalyticsCall ==
    /\ callIn # <<>>
    /\ callOut = <<>>
    /\ callOut' = run_analytics(callIn.sku, callIn.product, callIn.spec, callIn.region)
    /\ UNCHANGED <<pipelineVars, fpVars, ingestVars, guardVars, crawlVars, callIn,
                   schedVars, raceVars, dgVars, bgVars, ckVars>>

-----------------------------------------------------------------------------
(* The fingerprint of a listing's attribute rows: get_item_attributes       *)
(* followed by generate_fingerprint, sku_pipline.py:216-224.                *)

S_1TB == <<49, 84, 66>>                 \* "1TB"
S_1024GB == <<49, 48, 50, 52, 71, 66>>   \* "1024GB"
S_512GB == <<53, 49, 50, 71, 66>>         \* "512GB"

CapacityTexts == {S_1TB, S_1024GB, S_512GB}

\* the storage row of a listing: a text value or an option
StorageRows ==
    {AttrRow(S_storage, "text", t, Null, None) : t \in CapacityTexts}
        \cup {AttrRow(S_storage, "enum", None, Null, t) : t \in CapacityTexts}

\* the rows of one listing, in the order fetched
ListingRows ==
    {<<m>> : m \in {R_modelX, R_modelY}}
        \cup {<<m, st>> : m \in {R_modelX, R_modelY}, st \in StorageRows}
        \cup {<<st, m>> : m \in {R_modelX, R_modelY}, st \in StorageRows}

\* sku_pipline.py:216-224
ListingFingerprint(rows) == generate_fingerprint(get_item_attributes(rows))

ListingFingerprintCall ==
    /\ callIn # <<>>
    /\ callOut = <<>>
    /\ callOut' = [first |-> ListingFingerprint(callIn.first),
                   second |-> ListingFingerprint(callIn.second)]
    /\ UNCHANGED <<pipelineVars, fpVars, ingestVars, guardVars, crawlVars, callIn,
                   schedVars, raceVars, dgVars, bgVars, ckVars>>

-----------------------------------------------------------------------------
(* DaangnScraper.search and crawl_keywords: app/crawlers/daangn.py:257-319. *)
(* The site is what the pages answer: for each district, whether its page   *)
(* loads, and for each of its dongs the listings _crawl_dong appends.       *)

\* daangn.py:21-25 (25 districts in the code)
SEOUL_GU == <<"jongno", "jung">>

\* what _crawl_dong appends to results for one dong (urls; `collected` keeps a
\* url from being fetched twice within a dong, daangn.py:173-178)
DongResults == {<<>>, <<1>>, <<1, 2>>, <<2, 3>>}

\* one district: its page timed out (daangn.py:272-273), or its dongs in order;
\* a district without dong links is crawled as one unit (daangn.py:276-277)
GuSites ==
    {[reachable |-> FALSE, dongs |-> <<>>]}
        \cup {[reachable |-> TRUE, dongs |-> d] :
                d \in UNION {[1..n -> DongResults] : n \in 1..MaxDongs}}

\* daangn.py:280-284: dongs are crawled until results holds limit entries
RECURSIVE CollectDongs(_, _, _)
CollectDongs(dongs, results, limit) ==
    IF dongs = <<>> THEN results
    ELSE LET r == results \o Head(dongs) IN
         IF Len(r) >= limit THEN r ELSE CollectDongs(Tail(dongs), r, limit)

\* daangn.py:287-304: the urls yielded for one district
RECURSIVE YieldDeduped(_, _, _)
YieldDeduped(results, seen_urls, limit) ==
    IF results = <<>> THEN <<>>
    ELSE IF Head(results) \in seen_urls
    THEN YieldDeduped(Tail(results), seen_urls, limit)
    ELSE IF Cardinality(seen_urls \cup {Head(results)}) >= limit
    THEN <<Head(results)>>
    ELSE <<Head(results)>> \o YieldDeduped(Tail(results), seen_urls \cup {Head(results)},
                                         limit)

\* daangn.py:266-310: the districts from position g on
RECURSIVE SearchFrom(_, _, _)
SearchFrom(site, g, limit) ==
    IF g > Len(SEOUL_GU) THEN <<>>
    ELSE IF ~site[g].reachable THEN SearchFrom(site, g + 1, limit)
    ELSE YieldDeduped(CollectDongs(site[g].dongs, <<>>, limit), {}, limit)
             \o SearchFrom(site, g + 1, limit)

\* daangn.py:257-314
search(site, query, limit) ==
    LET urls == SearchFrom(site, 1, limit) IN
    [i \in DOMAIN urls |-> [query |-> query, url |-> urls[i]]]

\* daangn.py:316-319
RECURSIVE crawl_keywords(_, _, _)
crawl_keywords(site, keywords, limit_per_keyword) ==
    IF keywords = <<>> THEN <<>>
    ELSE search(site, Head(keywords), limit_per_keyword)
             \o crawl_keywords(site, Tail(keywords), limit_per_keyword)

SearchKeywords == <<"iphone", "ipad">>
SearchLimits == {1, 2}

\* routers/crawl.py:35-43
CrawlKeywordsCall ==
    /\ callIn # <<>>
    /\ callOut = <<>>
    /\ callOut' = [rows |-> crawl_keywords(callIn.site, callIn.keywords, callIn.limit)]
    /\ UNCHANGED <<pipelineVars, fpVars, ingestVars, guardVars, crawlVars, callIn,
                   schedVars, raceVars, dgVars, bgVars, ckVars>>

-----------------------------------------------------------------------------
(* crawl_dg.py: the checkpointed crawl of one query over districts and dongs. *)

\* crawl_dg.py:34-36, two of the districts.
dg_SEOUL_GU == <<"jongno", "jung">>

\* What the site lists: per district its dongs (extract_dong_inparams_from_gu),
\* per dong the listing links of its search page.
DgSite ==
    << << [dong |-> "cheongun", links |-> {"a1", "a2"}],
          [dong |-> "sajik", links |-> {"b1"}] >>,
       << [dong |-> "sogong", links |-> {"c1"}] >> >>

\* The links whose listing passes the filters of crawl_dg.py:322-326.
DgAdmitted == {"a1", "b1", "c1"}

DgAllDongs == UNION {{DgSite[g][d].dong : d \in DOMAIN DgSite[g]} : g \in DOMAIN DgSite}

DgTerminal == {"returned", "timeout", "rejected", "written"}

DgRequest(kind) == IF dg_stop_flag THEN dgAfterStop \cup {kind} ELSE dgAfterStop

\* crawl_dg.py:478-486 and 439: a process starts; main goes to the first query.
DgStart ==
    /\ dgPc = "exit"
    /\ Len(dgEnded) < MaxDgRuns
    /\ dg_stop_flag' = FALSE
    /\ dgPc' = "gu"
    /\ dgGu' = 1
    /\ dgDong' = 0
    /\ dgVisited' = {}
    /\ dgAfterStop' = {}
    /\ UNCHANGED <<checkpoint, skip, last_done_dong, detail_tasks, dgRows, dgEnded>>
    /\ UNCHANGED <<pipelineVars, fpVars, ingestVars, guardVars, crawlVars, callVars,
                   schedVars, raceVars, bgVars, ckVars>>

\* crawl_dg.py:440-443: the top of the loop over the districts; the return of
\* crawl_all_seoul_for_query ends the process (one query).
DgGuTop ==
    /\ dgPc = "gu"
    /\ IF dgGu > Len(dg_SEOUL_GU) \/ dg_stop_flag
       THEN /\ dgPc' = "exit"
            /\ dgEnded' = Append(dgEnded, ~dg_stop_flag)
            /\ dgGu' = 0
       ELSE /\ dgPc' = "gu_page"
            /\ UNCHANGED <<dgEnded, dgGu>>
    /\ UNCHANGED <<dg_stop_flag, checkpoint, dgDong, skip, last_done_dong, detail_tasks,
                   dgRows, dgVisited, dgAfterStop>>
    /\ UNCHANGED <<pipelineVars, fpVars, ingestVars, guardVars, crawlVars, callVars,
                   schedVars, raceVars, bgVars, ckVars>>

\* crawl_dg.py:445-456: the request of the district's page, then the lookup of
\* the district's checkpoint entry.
DgGuPage ==
    /\ dgPc = "gu_page"
    /\ dgAfterStop' = DgRequest("page")
    /\ last_done_dong' = checkpoint[dgGu]
    /\ skip' = (checkpoint[dgGu] # "")
    /\ dgDong' = 1
    /\ dgPc' = "dong"
    /\ UNCHANGED <<dg_stop_flag, checkpoint, dgGu, detail_tasks, dgRows, dgVisited, dgEnded>>
    /\ UNCHANGED <<pipelineVars, fpVars, ingestVars, guardVars, crawlVars, callVars,
                   schedVars, raceVars, bgVars, ckVars>>

\* crawl_dg.py:458-463 and 344: the top of the loop over the district's dongs,
\* up to the first await of crawl_dong.
DgDongTop ==
    /\ dgPc = "dong"
    /\ IF dgDong > Len(DgSite[dgGu])
       THEN /\ dgPc' = "gu"
            /\ dgGu' = dgGu + 1
            /\ dgDong' = 0
            /\ UNCHANGED <<skip, dgVisited, dgEnded, detail_tasks>>
       ELSE IF dg_stop_flag
       THEN /\ dgPc' = "exit"
            /\ dgEnded' = Append(dgEnded, FALSE)
            /\ dgGu' = 0
            /\ dgDong' = 0
            /\ UNCHANGED <<skip, dgVisited, detail_tasks>>
       ELSE IF skip
       THEN /\ skip' = (DgSite[dgGu][dgDong].dong # last_done_dong)
            /\ dgDong' = dgDong + 1
            /\ UNCHANGED <<dgPc, dgGu, dgVisited, dgEnded, detail_tasks>>
       ELSE /\ dgPc' = "open"
            /\ dgVisited' = dgVisited \cup {DgSite[dgGu][dgDong].dong}
            /\ detail_tasks' = <<>>
            /\ UNCHANGED <<skip, dgGu, dgDong, dgEnded>>
    /\ UNCHANGED <<dg_stop_flag, checkpoint, last_done_dong, dgRows, dgAfterStop>>
    /\ UNCHANGED <<pipelineVars, fpVars, ingestVars, guardVars, crawlVars, callVars,
                   schedVars, raceVars, bgVars, ckVars>>

\* crawl_dg.py:345-362: the request of the dong's search page; on a timeout
\* crawl_dong returns.
DgOpen ==
    \E timeout \in BOOLEAN :
        /\ dgPc = "open"
        /\ dgAfterStop' = DgRequest("page")
        /\ dgPc' = IF timeout THEN "slept" ELSE "round"
        /\ UNCHANGED <<dg_stop_flag, checkpoint, dgGu, dgDong, skip, last_done_dong,
                       detail_tasks, dgRows, dgVisited, dgEnded>>
        /\ UNCHANGED <<pipelineVars, fpVars, ingestVars, guardVars, crawlVars, callVars,
                       schedVars, raceVars, bgVars, ckVars>>

\* crawl_dg.py:368-370: the one scroll round (MAX_SCROLL_ROUNDS = 1) up to the
\* await of the links.
DgRound ==
    /\ dgPc = "round"
    /\ dgPc' = IF dg_stop_flag THEN "gather" ELSE "collect"
    /\ UNCHANGED <<dg_stop_flag, checkpoint, dgGu, dgDong, skip, last_done_dong,
                   detail_tasks, dgRows, dgVisited, dgEnded, dgAfterStop>>
    /\ UNCHANGED <<pipelineVars, fpVars, ingestVars, guardVars, crawlVars, callVars,
                   schedVars, raceVars, bgVars, ckVars>>

\* crawl_dg.py:370-396: the links come back and a task is created for each one,
\* for none when the flag is set; an exception leaves crawl_dong at line 433.
DgCollect ==
    \E exception \in BOOLEAN :
        /\ dgPc = "collect"
        /\ IF exception
           THEN /\ dgPc' = "slept"
                /\ UNCHANGED detail_tasks
           ELSE /\ dgPc' = "gather"
                /\ detail_tasks' = IF dg_stop_flag THEN <<>>
                                   ELSE [l \in DgSite[dgGu][dgDong].links |-> "created"]
        /\ UNCHANGED <<dg_stop_flag, checkpoint, dgGu, dgDong, skip, last_done_dong,
                       dgRows, dgVisited, dgEnded, dgAfterStop>>
        /\ UNCHANGED <<pipelineVars, fpVars, ingestVars, guardVars, crawlVars, callVars,
                       schedVars, raceVars, bgVars, ckVars>>

\* crawl_dg.py:249-251: extract_detail enters the semaphore and reads the flag.
DetailEnter(l) ==
    /\ l \in DOMAIN detail_tasks
    /\ detail_tasks[l] = "created"
    /\ detail_tasks' = [detail_tasks EXCEPT ![l] = IF dg_stop_flag THEN "returned"
                                                   ELSE "opening"]
    /\ UNCHANGED <<dg_stop_flag, checkpoint, dgPc, dgGu, dgDong, skip, last_done_dong,
                   dgRows, dgVisited, dgEnded, dgAfterStop>>
    /\ UNCHANGED <<pipelineVars, fpVars, ingestVars, guardVars, crawlVars, callVars,
                   schedVars, raceVars, bgVars, ckVars>>

\* crawl_dg.py:251-258: the page is there and the request of the listing starts.
DetailGoto(l) ==
    /\ l \in DOMAIN detail_tasks
    /\ detail_tasks[l] = "opening"
    /\ detail_tasks' = [detail_tasks EXCEPT ![l] = "fetching"]
    /\ dgAfterStop' = DgRequest("detail")
    /\ UNCHANGED <<dg_stop_flag, checkpoint, dgPc, dgGu, dgDong, skip, last_done_dong,
                   dgRows, dgVisited, dgEnded>>
    /\ UNCHANGED <<pipelineVars, fpVars, ingestVars, guardVars, crawlVars, callVars,
                   schedVars, raceVars, bgVars, ckVars>>

\* crawl_dg.py:258-337: the listing comes back, or the request times out; a
\* listing that passes the filters is appended to the CSV.
DetailDone(l) ==
    \E timeout \in BOOLEAN :
        /\ l \in DOMAIN detail_tasks
        /\ detail_tasks[l] = "fetching"
        /\ IF timeout
           THEN /\ detail_tasks' = [detail_tasks EXCEPT ![l] = "timeout"]
                /\ UNCHANGED dgRows
           ELSE IF l \in DgAdmitted
           THEN /\ detail_tasks' = [detail_tasks EXCEPT ![l] = "written"]
                /\ dgRows' = dgRows \cup {l}
           ELSE /\ detail_tasks' = [detail_tasks EXCEPT ![l] = "rejected"]
                /\ UNCHANGED dgRows
        /\ UNCHANGED <<dg_stop_flag, checkpoint, dgPc, dgGu, dgDong, skip, last_done_dong,
                       dgVisited, dgEnded, dgAfterStop>>
        /\ UNCHANGED <<pipelineVars, fpVars, ingestVars, guardVars, crawlVars, callVars,
                       schedVars, raceVars, bgVars, ckVars>>

\* crawl_dg.py:398-401: gather returns when every task has ended; then the
\* fallback is entered unless the flag is set.
DgGather ==
    /\ dgPc = "gather"
    /\ \A l \in DOMAIN detail_tasks : detail_tasks[l] \in DgTerminal
    /\ dgPc' = IF dg_stop_flag THEN "record" ELSE "fallback"
    /\ UNCHANGED <<dg_stop_flag, checkpoint, dgGu, dgDong, skip, last_done_dong,
                   detail_tasks, dgRows, dgVisited, dgEnded, dgAfterStop>>
    /\ UNCHANGED <<pipelineVars, fpVars, ingestVars, guardVars, crawlVars, callVars,
                   schedVars, raceVars, bgVars, ckVars>>

\* crawl_dg.py:405-427: the first page of the page=N listing is asked for
\* unless the flag is set; it shows no link that is not collected yet.
DgFallback ==
    /\ dgPc = "fallback"
    /\ dgPc' = "record"
    /\ UNCHANGED <<dg_stop_flag, checkpoint, dgGu, dgDong, skip, last_done_dong,
                   detail_tasks, dgRows, dgVisited, dgEnded, dgAfterStop>>
    /\ UNCHANGED <<pipelineVars, fpVars, ingestVars, guardVars, crawlVars, callVars,
                   schedVars, raceVars, bgVars, ckVars>>

\* crawl_dg.py:429-432: the dong is written to the checkpoint.
DgRecord ==
    /\ dgPc = "record"
    /\ checkpoint' = [checkpoint EXCEPT ![dgGu] = DgSite[dgGu][dgDong].dong]
    /\ dgPc' = "recorded"
    /\ UNCHANGED <<dg_stop_flag, dgGu, dgDong, skip, last_done_dong, detail_tasks,
                   dgRows, dgVisited, dgEnded, dgAfterStop>>
    /\ UNCHANGED <<pipelineVars, fpVars, ingestVars, guardVars, crawlVars, callVars,
                   schedVars, raceVars, bgVars, ckVars>>

\* crawl_dg.py:464: crawl_dong has returned; after the pause, the next dong.
DgSleep ==
    /\ dgPc \in {"recorded", "slept"}
    /\ dgPc' = "dong"
    /\ dgDong' = dgDong + 1
    /\ detail_tasks' = <<>>
    /\ UNCHANGED <<dg_stop_flag, checkpoint, dgGu, skip, last_done_dong,
                   dgRows, dgVisited, dgEnded, dgAfterStop>>
    /\ UNCHANGED <<pipelineVars, fpVars, ingestVars, guardVars, crawlVars, callVars,
                   schedVars, raceVars, bgVars, ckVars>>

\* crawl_dg.py:470-476: the signal handler sets the flag while the process runs.
DgSignal ==
    /\ dgPc # "exit"
    /\ ~dg_stop_flag
    /\ dg_stop_flag' = TRUE
    /\ UNCHANGED <<checkpoint, dgPc, dgGu, dgDong, skip, last_done_dong, detail_tasks,
                   dgRows, dgVisited, dgEnded, dgAfterStop>>
    /\ UNCHANGED <<pipelineVars, fpVars, ingestVars, guardVars, crawlVars, callVars,
                   schedVars, raceVars, bgVars, ckVars>>


-----------------------------------------------------------------------------
(* crawl_bg.py: what process_item leaves in the CSV, the seen-set and the
   running mean, over the runs of the script. *)

S_120000 == <<49, 50, 48, 48, 48, 48>>   \* "120000"
S_240000 == <<50, 52, 48, 48, 48, 48>>   \* "240000"

\* An entry of the API's list: pid "" when it has none; title_rejected stands
\* for the title filters of crawl_bg.py:241 and 245 (the outlier filter of
\* line 246 is off, ENABLE_PRICE_FILTER = False); sd is the first part of its
\* location.
BgItem(pid, ad, price, title_rejected, sd) ==
    [pid |-> pid, ad |-> ad, price |-> price, title_rejected |-> title_rejected, sd |-> sd]

BgItems ==
    { BgItem(p, FALSE, pr, FALSE, sd) :
          p \in {"p1", "p2"}, pr \in {S_120000, S_240000}, sd \in {"seoul", "busan"} }
    \cup { BgItem("", FALSE, S_120000, FALSE, "seoul"),
           BgItem("p1", TRUE, S_120000, FALSE, "seoul"),
           BgItem("p2", FALSE, S_1000, FALSE, "seoul"),
           BgItem("p2", FALSE, S_240000, TRUE, "seoul") }

\* crawl_bg.py:114-120
update_running_mean(st, price) ==
    LET n2 == st.n + 1 IN
    [n |-> n2, mean |-> st.mean + (price - st.mean) \div n2]

\* crawl_bg.py:144-154
append_row(csv, row) == Append(csv, row)

load_seen_pids_nothing(csv) == {}

\* crawl_bg.py:177-196
load_seen_pids(csv) ==
    {csv[i].external_id : i \in {j \in DOMAIN csv : csv[j].external_id # ""}}

\* crawl_bg.py:225-279: how the call ends and what it leaves behind.
bg_process_item(item, category_id, _seen_pids, st, csv) ==
    LET price_val == parse_price_int(item.price)
        unchanged(result) ==
            [result |-> result, seen |-> _seen_pids, stats |-> st, csv |-> csv]
    IN  IF item.pid = "" THEN unchanged("no_pid")
        ELSE IF item.pid \in _seen_pids THEN unchanged("seen")
        ELSE IF item.ad THEN unchanged("ad")
        ELSE IF item.title_rejected THEN unchanged("title")
        ELSE IF ~bg_guard_admits(category_id, item.price) THEN unchanged("price_guard")
        ELSE LET st2 == IF price_val # Null THEN update_running_mean(st, price_val) ELSE st
             IN  IF item.sd # "seoul"
                 THEN [result |-> "location", seen |-> _seen_pids, stats |-> st2, csv |-> csv]
                 ELSE [result |-> "admitted",
                       seen |-> _seen_pids \cup {item.pid},
                       stats |-> st2,
                       csv |-> append_row(csv, [external_id |-> item.pid,
                                                price |-> price_val])]

\* crawl_bg.py:394-403: a process starts and loads the seen-set from the CSV.
BgStart ==
    /\ bgPc = "exit"
    /\ bgCount < MaxBgItems
    /\ bgPc' = "run"
    /\ bgSeen' = load_seen_pids(output_csv)
    /\ running_stats' = [n |-> 0, mean |-> 0]
    /\ bgStart' = Len(output_csv)
    /\ bgLast' = [called |-> FALSE]
    /\ UNCHANGED <<output_csv, bgCount>>
    /\ UNCHANGED <<pipelineVars, fpVars, ingestVars, guardVars, crawlVars, callVars,
                   schedVars, raceVars, dgVars, ckVars>>

\* crawl_bg.py:316-317: the next item of a page is handed to process_item.
BgProcessItem ==
    \E item \in BgItems :
        /\ bgPc = "run"
        /\ bgCount < MaxBgItems
        /\ LET r == bg_process_item(item, IPHONE, bgSeen, running_stats, output_csv) IN
               /\ bgSeen' = r.seen
               /\ running_stats' = r.stats
               /\ output_csv' = r.csv
               /\ bgLast' = [called |-> TRUE, item |-> item, result |-> r.result,
                             was_seen |-> item.pid \in bgSeen]
        /\ bgCount' = bgCount + 1
        /\ UNCHANGED <<bgPc, bgStart>>
        /\ UNCHANGED <<pipelineVars, fpVars, ingestVars, guardVars, crawlVars, callVars,
                       schedVars, raceVars, dgVars, ckVars>>

\* crawl_bg.py:413: the process ends.
BgExit ==
    /\ bgPc = "run"
    /\ bgPc' = "exit"
    /\ UNCHANGED <<output_csv, bgSeen, running_stats, bgStart, bgLast, bgCount>>
    /\ UNCHANGED <<pipelineVars, fpVars, ingestVars, guardVars, crawlVars, callVars,
                   schedVars, raceVars, dgVars, ckVars>>


-----------------------------------------------------------------------------
(* crawl_dg.py:160-167 and crawl_bg.py:165-175: save_checkpoint, step by step,
   called by several coroutines of a process that may stop at any step. *)

Savers == 1..MaxSavers

\* What json.dump writes for the data of one call, in two writes.
Complete(data) == <<data, data>>

tmp_in_place == "file"

\* crawl_dg.py:162: the file written, CHECKPOINT + ".part".
tmp == "part"

\* A coroutine calls save_checkpoint.
SaveCall(c) ==
    /\ ckAlive
    /\ ckPc[c] = "idle"
    /\ ckSaves < MaxSaves
    /\ ckSaves' = ckSaves + 1
    /\ ckData' = [ckData EXCEPT ![c] = ckSaves + 1]
    /\ ckPc' = [ckPc EXCEPT ![c] = "acquire"]
    /\ UNCHANGED <<ckFiles, checkpoint_lock, ckAlive>>
    /\ UNCHANGED <<pipelineVars, fpVars, ingestVars, guardVars, crawlVars, callVars,
                   schedVars, raceVars, dgVars, bgVars>>

\* crawl_dg.py:161: async with checkpoint_lock, entered.
SaveAcquire(c) ==
    /\ ckAlive
    /\ ckPc[c] = "acquire"
    /\ checkpoint_lock = 0
    /\ checkpoint_lock' = c
    /\ ckPc' = [ckPc EXCEPT ![c] = "open"]
    /\ UNCHANGED <<ckFiles, ckData, ckAlive, ckSaves>>
    /\ UNCHANGED <<pipelineVars, fpVars, ingestVars, guardVars, crawlVars, callVars,
                   schedVars, raceVars, dgVars, bgVars>>

\* crawl_dg.py:163: open(tmp, "w") creates or empties the file.
SaveOpen(c) ==
    /\ ckAlive
    /\ ckPc[c] = "open"
    /\ ckFiles' = [ckFiles EXCEPT ![tmp] = <<>>]
    /\ ckPc' = [ckPc EXCEPT ![c] = "dump"]
    /\ UNCHANGED <<checkpoint_lock, ckData, ckAlive, ckSaves>>
    /\ UNCHANGED <<pipelineVars, fpVars, ingestVars, guardVars, crawlVars, callVars,
                   schedVars, raceVars, dgVars, bgVars>>

\* crawl_dg.py:164-166: one write of json.dump; after the last one the file is
\* flushed and closed.
SaveDump(c) ==
    /\ ckAlive
    /\ ckPc[c] = "dump"
    /\ ckFiles' = [ckFiles EXCEPT ![tmp] = Append(ckFiles[tmp], ckData[c])]
    /\ ckPc' = [ckPc EXCEPT ![c] = IF ckFiles'[tmp] = Complete(ckData[c])
                                    THEN "replace" ELSE "dump"]
    /\ UNCHANGED <<checkpoint_lock, ckData, ckAlive, ckSaves>>
    /\ UNCHANGED <<pipelineVars, fpVars, ingestVars, guardVars, crawlVars, callVars,
                   schedVars, raceVars, dgVars, bgVars>>

\* crawl_dg.py:167: os.replace(tmp, CHECKPOINT).
SaveReplace(c) ==
    /\ ckAlive
    /\ ckPc[c] = "replace"
    /\ ckFiles' = IF tmp = "file" THEN ckFiles
                  ELSE [file |-> ckFiles[tmp], part |-> None]
    /\ ckPc' = [ckPc EXCEPT ![c] = "release"]
    /\ UNCHANGED <<checkpoint_lock, ckData, ckAlive, ckSaves>>
    /\ UNCHANGED <<pipelineVars, fpVars, ingestVars, guardVars, crawlVars, callVars,
                   schedVars, raceVars, dgVars, bgVars>>

\* crawl_dg.py:161: the end of the async with block.
SaveRelease(c) ==
    /\ ckAlive
    /\ ckPc[c] = "release"
    /\ checkpoint_lock' = 0
    /\ ckPc' = [ckPc EXCEPT ![c] = "idle"]
    /\ UNCHANGED <<ckFiles, ckData, ckAlive, ckSaves>>
    /\ UNCHANGED <<pipelineVars, fpVars, ingestVars, guardVars, crawlVars, callVars,
                   schedVars, raceVars, dgVars, bgVars>>

\* The process stops where it is; the files stay as they are.
CkCrash ==
    /\ ckAlive
    /\ ckAlive' = FALSE
    /\ UNCHANGED <<ckFiles, checkpoint_lock, ckPc, ckData, ckSaves>>
    /\ UNCHANGED <<pipelineVars, fpVars, ingestVars, guardVars, crawlVars, callVars,
                   schedVars, raceVars, dgVars, bgVars>>

\* crawl_dg.py:40: a new process starts with a new lock.
CkRestart ==
    /\ ~ckAlive
    /\ ckAlive' = TRUE
    /\ checkpoint_lock' = 0
    /\ ckPc' = [c \in Savers |-> "idle"]
    /\ ckData' = [c \in Savers |-> 0]
    /\ UNCHANGED <<ckFiles, ckSaves>>
    /\ UNCHANGED <<pipelineVars, fpVars, ingestVars, guardVars, crawlVars, callVars,
                   schedVars, raceVars, dgVars, bgVars>>


-----------------------------------------------------------------------------
(* routers/crawl.py: a crawl request as one database transaction. *)

\* routers/crawl.py:24-50 with db/session.py:31-33: the statements of
\* upsert_items run in the session's one transaction; statement fail_at raises
\* (0: none does), the commit of line 48 is then not reached and the session is
\* closed without it.
crawl_daangn_keywords(tbl, rows, fail_at) ==
    LET executed == IF fail_at = 0 THEN rows ELSE SubSeq(rows, 1, fail_at - 1)
        pending == upsert_items(tbl, executed, 1, CATEGORY_IPHONE, 1)
    IN  [executed |-> executed,
         raised |-> fail_at # 0,
         items |-> IF fail_at = 0 THEN pending ELSE tbl]

\* One request on an empty table.
CrawlRequestCall ==
    /\ callIn # <<>>
    /\ callOut = <<>>
    /\ callOut' = crawl_daangn_keywords({}, callIn.rows, callIn.fail_at)
    /\ UNCHANGED <<pipelineVars, fpVars, ingestVars, guardVars, crawlVars, callIn,
                   schedVars, raceVars, dgVars, bgVars, ckVars>>


-----------------------------------------------------------------------------
(* A SKU created by the pipeline, then looked up by the analytics resolver. *)

\* the attribute rows of a listing: a model, and perhaps a storage and a colour
LookupListings ==
    {<<m>> \o st \o c :
        m \in {R_modelX, R_modelY},
        st \in {<<>>, <<R_storage128>>, <<AttrRow(S_storage, "int", None, 256, None)>>},
        c \in {<<>>, <<R_colorBlue>>}}

\* sku_pipline.py:130-135 on an empty table: the row get_or_create_sku inserts,
\* its fingerprint column holding the hex text of the digest.
CreatedSku(category_id, attributes_dict) ==
    [sku_id |-> 1, category_id |-> category_id,
     fingerprint |-> HexText(generate_fingerprint(attributes_dict))]

\* the value the mapping holds for a key, None when it has none
DictGet(d, k) ==
    IF \E i \in DOMAIN d : d[i][1] = k
    THEN d[CHOOSE i \in DOMAIN d : d[i][1] = k][2]
    ELSE None

\* schemas/analytics.py:4-15: a request naming the SKU's model and the chosen
\* ones of its other values.
SpecNaming(attributes_dict, with_storage, with_color) ==
    [model |-> DictGet(attributes_dict, S_model),
     storage |-> IF with_storage THEN DictGet(attributes_dict, S_storage) ELSE None,
     color |-> IF with_color THEN DictGet(attributes_dict, S_color) ELSE None]

\* sku_pipline.py:216-240 for one listing, then analytics.py:11-100.
LookupCall ==
    /\ callIn # <<>>
    /\ callOut = <<>>
    /\ LET attributes == get_item_attributes(callIn.rows)
           created == CreatedSku(PRODUCT2CATEGORY(callIn.product), attributes)
           spec == SpecNaming(attributes, callIn.with_storage, callIn.with_color)
       IN  callOut' = [created |-> created,
                       spec |-> spec,
                       found |-> fetch_sku_id_with_fingerprint({created}, callIn.product, spec)]
    /\ UNCHANGED <<pipelineVars, fpVars, ingestVars, guardVars, crawlVars, callIn,
                   schedVars, raceVars, dgVars, bgVars, ckVars>>


-----------------------------------------------------------------------------
(* fetch_lowest_listings: services/analytics.py:469-518. *)

\* The rows of items the query selects for a city-wide request (region_id
\* None), before ORDER BY price and LIMIT 70.
fetch_lowest_listings(sku_ids, region_id) ==
    IF sku_ids = {} THEN {}
    ELSE {i \in items :
            /\ i.region_id \in Regions
            /\ i.sku_id \in sku_ids
            /\ region_id # Null => i.region_id = region_id
            /\ i.status = "active"}


-----------------------------------------------------------------------------
(* Specifications. *)

PipelineInit ==
    /\ now = 1
    /\ items = {}
    /\ itemAttrs = [id \in {} |-> {}]
    /\ nextItemId = 1
    /\ sku = {}
    /\ sku_attribute = {}
    /\ nextSkuId = 1
    /\ price_stats = {}
    /\ pc = "idle"
    /\ genItems = <<>>
    /\ genIdx = 1
    /\ genAttrs = <<>>
    /\ sku_map = EmptyMap
    /\ everMapped = {}
    /\ fresh = "stale"
    /\ lastSummary = NoSummary

FpIdle ==
    /\ fpIn = <<>>
    /\ fpOut = <<>>

IngestIdle == lastIngest = NoIngest

GuardIdle ==
    /\ guardIn = <<>>
    /\ guardOut = <<>>

CallIdle ==
    /\ callIn = <<>>
    /\ callOut = <<>>

\* scheduler.py:12: _scheduler is None until start_scheduler runs
SchedIdle ==
    /\ scheduler = 0
    /\ running = {}
    /\ nextScheduler = 1
    /\ executing = <<>>

DgIdle ==
    /\ dg_stop_flag = FALSE
    /\ checkpoint = [g \in DOMAIN dg_SEOUL_GU |-> ""]
    /\ dgPc = "exit"
    /\ dgGu = 0
    /\ dgDong = 0
    /\ skip = FALSE
    /\ last_done_dong = ""
    /\ detail_tasks = <<>>
    /\ dgRows = {}
    /\ dgVisited = {}
    /\ dgEnded = <<>>
    /\ dgAfterStop = {}

BgIdle ==
    /\ output_csv = <<>>
    /\ bgSeen = {}
    /\ running_stats = [n |-> 0, mean |-> 0]
    /\ bgPc = "exit"
    /\ bgStart = 0
    /\ bgLast = [called |-> FALSE]
    /\ bgCount = 0

CkIdle ==
    /\ ckFiles = [file |-> None, part |-> None]
    /\ checkpoint_lock = 0
    /\ ckPc = [c \in Savers |-> "idle"]
    /\ ckData = [c \in Savers |-> 0]
    /\ ckAlive = TRUE
    /\ ckSaves = 0

RaceIdle ==
    /\ runPc = <<>>
    /\ runKey = <<>>
    /\ runGot = <<>>

CrawlIdle ==
    /\ seen_pids = {}
    /\ stop_flag = FALSE
    /\ crawlPc = "done"
    /\ page_num = 0
    /\ rest = <<>>
    /\ shortPage = FALSE
    /\ current_consecutive_seen_count = 0
    /\ streamSeenCount = 0
    /\ thresholdHit = FALSE
    /\ itemAfterHit = FALSE
    /\ pageAfterHit = FALSE

\* The SKU-resolution stage, run by one process over a growing items table.
SkuInit == PipelineInit /\ FpIdle /\ IngestIdle /\ GuardIdle /\ CrawlIdle /\ CallIdle /\ SchedIdle /\ RaceIdle /\ DgIdle /\ BgIdle /\ CkIdle

SkuNext ==
    \/ ListingWithAttributes
    \/ GenStart
    \/ GenLoop
    \/ GenCreate
    \/ GenReturn
    \/ Aggregate

SpecSku == SkuInit /\ [][SkuNext]_vars

\* The pipeline script and the summary query over listings of one category.
StatsInit == PipelineInit /\ FpIdle /\ IngestIdle /\ GuardIdle /\ CrawlIdle /\ CallIdle /\ SchedIdle /\ RaceIdle /\ DgIdle /\ BgIdle /\ CkIdle

StatsNext ==
    \/ ListingForStats
    \/ ListingSold
    \/ Tick
    \/ GenStart
    \/ GenLoop
    \/ GenCreate
    \/ GenReturn
    \/ Aggregate
    \/ Summary

SpecStats == StatsInit /\ [][StatsNext]_vars

-----------------------------------------------------------------------------
(* generate_fingerprint on its own: every mapping over FpPairs, handed in under
   two insertion orders. *)

S_128 == <<49, 50, 56>>       \* "128"
S_256 == <<50, 53, 54>>       \* "256"

FpPairs ==
    { <<S_model, S_X>>, <<S_model, S_Y>>, <<S_color, S_Blue>>,
      <<S_storage, S_128>>, <<S_storage, S_256>> }

\* The dicts whose items are the pairs of P, one per insertion order.
DictsOf(P) == Perms(P)

FpMappings == {P \in SUBSET FpPairs : \A p, q \in P : p[1] = q[1] => p = q}

FpInit ==
    /\ PipelineInit
    /\ CallIdle /\ SchedIdle /\ RaceIdle /\ DgIdle /\ BgIdle /\ CkIdle
    /\ IngestIdle
    /\ GuardIdle
    /\ CrawlIdle
    /\ fpIn \in UNION {DictsOf(P) \X DictsOf(P) : P \in FpMappings}
    /\ fpOut = <<>>

\* Both copies are called on both dicts.
FingerprintCall ==
    /\ fpOut = <<>>
    /\ fpOut' = [pipeline |-> <<generate_fingerprint(fpIn[1]), generate_fingerprint(fpIn[2])>>,
                 crud |-> <<crud_generate_fingerprint(fpIn[1]),
                            crud_generate_fingerprint(fpIn[2])>>]
    /\ UNCHANGED <<pipelineVars, fpIn, ingestVars, guardVars, crawlVars, callVars,
                   schedVars, raceVars, dgVars, bgVars, ckVars>>

FpNext == FingerprintCall

SpecFp == FpInit /\ [][FpNext]_vars

-----------------------------------------------------------------------------
(* Crawl requests on an items table, one after the other. *)

IngestInit == PipelineInit /\ FpIdle /\ IngestIdle /\ GuardIdle /\ CrawlIdle /\ CallIdle /\ SchedIdle /\ RaceIdle /\ DgIdle /\ BgIdle /\ CkIdle

IngestNext ==
    \/ crawl_once
    \/ IngestTick

SpecIngest == IngestInit /\ [][IngestNext]_vars

-----------------------------------------------------------------------------
(* The price guard on its own: every category with every price text. *)

GuardInit ==
    /\ PipelineInit
    /\ CallIdle /\ SchedIdle /\ RaceIdle /\ DgIdle /\ BgIdle /\ CkIdle
    /\ FpIdle
    /\ IngestIdle
    /\ CrawlIdle
    /\ guardIn \in [category_id : GuardCategories, price_text : GuardPriceTexts]
    /\ guardOut = <<>>

GuardNext == GuardCall

SpecGuard == GuardInit /\ [][GuardNext]_vars

-----------------------------------------------------------------------------
(* One query of the incremental crawl, started with any seen-set. *)

CrawlInit ==
    /\ PipelineInit
    /\ CallIdle /\ SchedIdle /\ RaceIdle /\ DgIdle /\ BgIdle /\ CkIdle
    /\ FpIdle
    /\ IngestIdle
    /\ GuardIdle
    /\ seen_pids \in SUBSET CrawlPids
    /\ stop_flag = FALSE
    /\ crawlPc = "fetch"
    /\ page_num = 0
    /\ rest = <<>>
    /\ shortPage = FALSE
    /\ current_consecutive_seen_count = 0
    /\ streamSeenCount = 0
    /\ thresholdHit = FALSE
    /\ itemAfterHit = FALSE
    /\ pageAfterHit = FALSE

CrawlNext ==
    \/ FetchPage
    \/ ProcessItem
    \/ PageEnd
    \/ QueryEnd
    \/ SignalStop

SpecCrawl == CrawlInit /\ [][CrawlNext]_vars

-----------------------------------------------------------------------------
(* The accessory classifier on its own. *)

AccessoryInit ==
    /\ PipelineInit
    /\ FpIdle
    /\ IngestIdle
    /\ GuardIdle
    /\ CrawlIdle
    /\ SchedIdle
    /\ RaceIdle /\ DgIdle /\ BgIdle /\ CkIdle
    /\ callIn \in [title : AccessoryTitles, category_id : GuardCategories,
                   price : AccessoryPrices, baseline_mean : AccessoryMeans]
    /\ callOut = <<>>

AccessoryNext == AccessoryCall

SpecAccessory == AccessoryInit /\ [][AccessoryNext]_vars

-----------------------------------------------------------------------------
(* The scheduler of one server process: start and stop calls, cron firings  *)
(* and the job's thread, in any interleaving.                               *)

SchedInit ==
    /\ PipelineInit
    /\ FpIdle
    /\ IngestIdle
    /\ GuardIdle
    /\ CrawlIdle
    /\ CallIdle
    /\ SchedIdle
    /\ RaceIdle /\ DgIdle /\ BgIdle /\ CkIdle

SchedNext ==
    \/ start_scheduler
    \/ stop_scheduler
    \/ CronFire
    \/ CrawlerEnds
    \/ SkuGenerationEnds

SpecSched == SchedInit /\ [][SchedNext]_vars

\* The pipeline creates a SKU and a request asks for it.
LookupInit ==
    /\ PipelineInit
    /\ FpIdle
    /\ IngestIdle
    /\ GuardIdle
    /\ CrawlIdle
    /\ SchedIdle
    /\ RaceIdle /\ DgIdle /\ BgIdle /\ CkIdle
    /\ callIn \in [rows : LookupListings, product : {S_iPhone, S_iPad},
                   with_storage : BOOLEAN, with_color : BOOLEAN]
    /\ callOut = <<>>

LookupNext == LookupCall

SpecLookup == LookupInit /\ [][LookupNext]_vars

\* A crawl request whose statements may fail.
TxInit ==
    /\ PipelineInit
    /\ FpIdle
    /\ IngestIdle
    /\ GuardIdle
    /\ CrawlIdle
    /\ SchedIdle
    /\ RaceIdle /\ DgIdle /\ BgIdle /\ CkIdle
    /\ callIn \in {[rows |-> rows, fail_at |-> k] : rows \in Batches, k \in 0..MaxBatch}
    /\ callIn.fail_at <= Len(callIn.rows)
    /\ callOut = <<>>

TxNext == CrawlRequestCall

SpecTx == TxInit /\ [][TxNext]_vars

\* save_checkpoint called by the coroutines of a process that may stop and start again.
CkInit ==
    /\ PipelineInit
    /\ FpIdle
    /\ IngestIdle
    /\ GuardIdle
    /\ CrawlIdle
    /\ CallIdle
    /\ SchedIdle
    /\ RaceIdle /\ DgIdle /\ BgIdle /\ CkIdle

CkNext ==
    \/ \E c \in Savers :
           \/ SaveCall(c)
           \/ SaveAcquire(c)
           \/ SaveOpen(c)
           \/ SaveDump(c)
           \/ SaveReplace(c)
           \/ SaveRelease(c)
    \/ CkCrash
    \/ CkRestart

SpecCk == CkInit /\ [][CkNext]_vars

\* crawl_bg.py run again and again over one CSV.
BgInit ==
    /\ PipelineInit
    /\ FpIdle
    /\ IngestIdle
    /\ GuardIdle
    /\ CrawlIdle
    /\ CallIdle
    /\ SchedIdle
    /\ RaceIdle /\ DgIdle /\ BgIdle /\ CkIdle

BgNext ==
    \/ BgStart
    \/ BgProcessItem
    \/ BgExit

SpecBg == BgInit /\ [][BgNext]_vars

\* crawl_dg.py run again and again over one checkpoint file and one CSV.
DgInit ==
    /\ PipelineInit
    /\ FpIdle
    /\ IngestIdle
    /\ GuardIdle
    /\ CrawlIdle
    /\ CallIdle
    /\ SchedIdle
    /\ RaceIdle
    /\ DgIdle /\ BgIdle /\ CkIdle

DgNext ==
    \/ DgStart
    \/ DgGuTop
    \/ DgGuPage
    \/ DgDongTop
    \/ DgOpen
    \/ DgRound
    \/ DgCollect
    \/ \E l \in DgAdmitted \cup {"a2"} : DetailEnter(l) \/ DetailGoto(l) \/ DetailDone(l)
    \/ DgGather
    \/ DgFallback
    \/ DgRecord
    \/ DgSleep
    \/ DgSignal

SpecDg == DgInit /\ [][DgNext]_vars

-----------------------------------------------------------------------------
(* crawl_keywords called on a site. *)

SearchInit ==
    /\ PipelineInit
    /\ FpIdle
    /\ IngestIdle
    /\ GuardIdle
    /\ CrawlIdle
    /\ SchedIdle
    /\ RaceIdle /\ DgIdle /\ BgIdle /\ CkIdle
    /\ callIn \in [site : [DOMAIN SEOUL_GU -> GuSites], keywords : {SearchKeywords},
                   limit : SearchLimits]
    /\ callOut = <<>>

SearchNext == CrawlKeywordsCall

SpecSearch == SearchInit /\ [][SearchNext]_vars

-----------------------------------------------------------------------------
(* Two listings fingerprinted from their attribute rows. *)

CapacityInit ==
    /\ PipelineInit
    /\ FpIdle
    /\ IngestIdle
    /\ GuardIdle
    /\ CrawlIdle
    /\ SchedIdle
    /\ RaceIdle /\ DgIdle /\ BgIdle /\ CkIdle
    /\ callIn \in [first : ListingRows, second : ListingRows]
    /\ callOut = <<>>

CapacityNext == ListingFingerprintCall

SpecCapacity == CapacityInit /\ [][CapacityNext]_vars

-----------------------------------------------------------------------------
(* run_analytics called on a request. *)

AnalyticsInit ==
    /\ PipelineInit
    /\ FpIdle
    /\ IngestIdle
    /\ GuardIdle
    /\ CrawlIdle
    /\ SchedIdle
    /\ RaceIdle /\ DgIdle /\ BgIdle /\ CkIdle
    /\ callIn \in [sku : SUBSET AnalyticsSkuRows, product : AnalyticsProducts,
                   spec : AnalyticsSpecs, region : AnalyticsRegions]
    /\ callOut = <<>>

AnalyticsNext == AnalyticsCall

SpecAnalytics == AnalyticsInit /\ [][AnalyticsNext]_vars

-----------------------------------------------------------------------------
(* fetch_price_trend called on a table of buckets. *)

TrendInit ==
    /\ PipelineInit
    /\ FpIdle
    /\ IngestIdle
    /\ GuardIdle
    /\ CrawlIdle
    /\ SchedIdle
    /\ RaceIdle /\ DgIdle /\ BgIdle /\ CkIdle
    /\ callIn \in [table : TrendTables, sku_ids : {{1}}, region_id : {Null, 1},
                   today : {TrendToday}]
    /\ callOut = <<>>

TrendNext == TrendCall

SpecTrend == TrendInit /\ [][TrendNext]_vars

-----------------------------------------------------------------------------
(* Concurrent pipeline runs, each resolving one (category, attributes).     *)

RaceInit ==
    /\ PipelineInit
    /\ FpIdle
    /\ IngestIdle
    /\ GuardIdle
    /\ CrawlIdle
    /\ CallIdle
    /\ SchedIdle
    /\ DgIdle /\ BgIdle /\ CkIdle
    /\ runKey \in [Runs -> RaceKeys]
    /\ runPc = [p \in Runs |-> "loop"]
    /\ runGot = [p \in Runs |-> Null]

RaceNext ==
    \E p \in Runs :
        \/ RunLoopSelect(p)
        \/ RunSelect(p)
        \/ RunInsert(p)

SpecRace == RaceInit /\ [][RaceNext]_vars

-----------------------------------------------------------------------------
(* Claims. *)

SameListingIdentity(i, j) ==
    /\ ItemById(i).category_id = ItemById(j).category_id
    /\ AttrSetOf(itemAttrs[i]) = AttrSetOf(itemAttrs[j])

\* C1: after any sequence of runs of the SKU-resolution stage by one process, two
\* listings with the same category and the same set of (attribute code, value)
\* pairs are mapped to the same sku_id, and the sku table holds at most one row
\* per (category_id, fingerprint).
C1_SameAttributesSameSku ==
    /\ \A a, b \in everMapped : SameListingIdentity(a[1], b[1]) => a[2] = b[2]
    /\ \A r1, r2 \in sku :
          (r1.category_id = r2.category_id /\ r1.fingerprint = r2.fingerprint) => r1 = r2

\* Two listings whose attribute rows differ but give the same set of pairs have
\* both been mapped.
C1_Witness ==
    \E a, b \in everMapped :
        /\ a[1] # b[1]
        /\ SameListingIdentity(a[1], b[1])
        /\ itemAttrs[a[1]] # itemAttrs[b[1]]
        /\ Cardinality(AttrSetOf(itemAttrs[a[1]])) >= 2

\* C2: generate_fingerprint returns the same value for a mapping whatever the
\* insertion order of its entries, in both copies (services/sku_pipline and
\* db/crud), and the two copies agree on every mapping.
C2_FingerprintOrderIndependent ==
    fpOut # <<>> =>
        /\ fpOut.pipeline[1] = fpOut.pipeline[2]
        /\ fpOut.crud[1] = fpOut.crud[2]
        /\ fpOut.pipeline[1] = fpOut.crud[1]
        /\ fpOut.pipeline[2] = fpOut.crud[2]

\* A mapping of three entries was fingerprinted under two different orders.
C2_Witness ==
    /\ fpOut # <<>>
    /\ Len(fpIn[1]) = 3
    /\ fpIn[1] # fpIn[2]

SameKeyAsRecord(row, r) == row.source = r.source /\ row.external_id = r.external_id

StoredRows(r) == {row \in items : SameKeyAsRecord(row, r)}

\* The record at position i is the last of its key in the request.
LastOfKey(rows, i) ==
    \A j \in (i + 1)..Len(rows) :
        ~(rows[j].source = rows[i].source /\ rows[j].external_id = rows[i].external_id)

StatusMeaning(st) == IF st = S_OnSale THEN "active" ELSE st

\* C4: after upsert_items has ingested again a listing that was already stored,
\* the stored row holds the new record's title, price and status, and the time
\* of the request as its update timestamp.
C4_ReingestUpdatesMutableFields ==
    lastIngest.called =>
        \A i \in 1..Len(lastIngest.rows) :
            LET r == lastIngest.rows[i] IN
            (/\ LastOfKey(lastIngest.rows, i)
             /\ r.price # Null
             /\ \E old \in lastIngest.before : SameKeyAsRecord(old, r)) =>
                \A row \in StoredRows(r) :
                    /\ row.title = r.title
                    /\ row.price = r.price
                    /\ StatusMeaning(row.status) = r.status
                    /\ row.updated_at = lastIngest.at

\* C5: an aggregation run over a listing set that has not changed since the
\* previous committed run leaves every price_stats row as that run wrote it.
C5_RerunLeavesStatsIdentical ==
    [][(pc = "aggregate" /\ fresh # "stale") => price_stats' = price_stats]_vars

\* A second run in a row has committed over a bucket of two listings.
C5_Witness ==
    /\ fresh = "again"
    /\ \E ps \in price_stats : ps.items_num >= 2

\* The listings of a key that are active.
ActiveOf(group) == {r \in group : r.status = "active"}

\* C6: right after an aggregation run, the row of every key the run wrote is
\* computed over the listings of that key whose status is active.
C6_StatsOverActiveOnly ==
    (pc = "idle" /\ fresh # "stale") =>
        \A k \in StatsGroups(sku_map, "day") :
            \A ps \in price_stats :
                (ps.sku_id = k[1] /\ ps.region_id = k[2] /\ ps.bucket_ts = k[3]) =>
                    LET active == ActiveOf(StatsGroup(sku_map, "day", k)) IN
                    /\ ps.items_num = Cardinality(active)
                    /\ ps.sum_price = SumPrice(active)

\* The latest bucket of each (sku, region) pair in scope.
ScopePairs(sku_ids, region_id) ==
    {<<ps.sku_id, ps.region_id>> : ps \in {x \in price_stats : InScope(x, sku_ids, region_id)}}

LatestBucket(pair) ==
    CHOOSE ps \in price_stats :
        /\ ps.sku_id = pair[1] /\ ps.region_id = pair[2]
        /\ \A o \in price_stats :
              (o.sku_id = pair[1] /\ o.region_id = pair[2]) => o.bucket_ts <= ps.bucket_ts

\* C7: for a non-empty set of SKUs with a bucket in scope, fetch_summary_info
\* returns, over the latest bucket of each (sku, region) pair in scope, the sum
\* of items_num, the items_num-weighted mean of avg_price cut to an integer, the
\* least min_price and the greatest max_price.
C7_SummaryOverLatestBuckets ==
    lastSummary.called =>
        LET pairs == ScopePairs(lastSummary.sku_ids, lastSummary.region_id)
            latest == {LatestBucket(p) : p \in pairs}
            res == lastSummary.result
        IN  pairs # {} =>
              /\ res.status = "ok"
              /\ res.listing_count = SumItemsNum(latest)
              /\ res.average_price * 100 * SumItemsNum(latest) <= SumWeighted(latest)
              /\ SumWeighted(latest) < (res.average_price + 1) * 100 * SumItemsNum(latest)
              /\ \A b \in latest : res.lowest_listing_price <= b.min_price
              /\ \E b \in latest : res.lowest_listing_price = b.min_price
              /\ \A b \in latest : res.highest_listing_price >= b.max_price
              /\ \E b \in latest : res.highest_listing_price = b.max_price

\* Two one-listing buckets at 700000 and 650000 were summarised.
C7_Witness ==
    /\ lastSummary.called
    /\ Cardinality(ScopePairs(lastSummary.sku_ids, lastSummary.region_id)) = 2
    /\ lastSummary.result.status = "ok"
    /\ lastSummary.result.listing_count = 2
    /\ lastSummary.result.average_price = 675000
    /\ lastSummary.result.lowest_listing_price = 650000
    /\ lastSummary.result.highest_listing_price = 700000

\* C8: once the consecutive-already-seen counter of a query has reached the
\* threshold, no further item is handed to process_item and no further page of
\* the query is requested.
C8_StopsAtThreshold == ~itemAfterHit /\ ~pageAfterHit

\* C9: while a page is looped over, the consecutive-already-seen counter equals
\* the number of already-seen items met since the last admitted item of the
\* query, or since the query started, counted across page boundaries.
C9_CounterSpansPages ==
    crawlPc = "loop" => current_consecutive_seen_count = streamSeenCount

\* The price a text shows, Null when it shows none.
ShownPrice(price_text) ==
    IF SelectSeq(price_text, IsDigit) = <<>> THEN Null
    ELSE StrToInt(SelectSeq(price_text, IsDigit))

\* C10: for a category that has a price range, each crawler's guard admits a
\* listing exactly when its price is present and min <= price <= max; for the
\* phone category the range is 30000..5000000; the three copies agree.
C10_PriceGuardInclusive ==
    (guardOut # <<>> /\ guardIn.category_id \in {IPHONE, IPAD, MACBOOK, WATCH, AIRPODS}) =>
        LET price == ShownPrice(guardIn.price_text)
            range == bg_CATEGORY_PRICE_GUARD[guardIn.category_id]
            admitted == price # Null /\ range.min <= price /\ price <= range.max
        IN  /\ guardOut.bg = admitted
            /\ guardOut.dg = admitted
            /\ guardOut.jg = admitted
            /\ guardIn.category_id = IPHONE =>
                  guardOut.bg = (price # Null /\ 30000 <= price /\ price <= 5000000)

\* A phone listing at 30000, the lower end of the range, was admitted.
C10_Witness ==
    /\ guardOut # <<>>
    /\ guardIn.category_id = IPHONE
    /\ ShownPrice(guardIn.price_text) = 30000
    /\ guardOut.bg /\ guardOut.dg /\ guardOut.jg

\* The rule of rejection, on the keyword tables of one crawler.
AccessoryRule(core, inclusion, only, strong) ==
    /\ contains_any(callIn.title, GetList(core, callIn.category_id))
    /\ ~contains_any(callIn.title, inclusion)
    /\ \/ contains_any(callIn.title, only)
       \/ ~contains_any(callIn.title, GetList(strong, callIn.category_id))
       \/ /\ callIn.price # Null
          /\ callIn.baseline_mean \notin {Null, 0}
          /\ BelowQuarterOfMean(callIn.price, callIn.baseline_mean)

\* C11: is_accessory_title rejects a listing exactly when its title contains an
\* accessory keyword of the category, contains no inclusion phrase, and contains
\* an accessory-only word, or contains no strong device hint, or has a price
\* below max(50000, a quarter of the mean); in each of the three crawlers.
C11_AccessoryRule ==
    callOut # <<>> =>
        /\ callOut.bg = AccessoryRule(bg_ACCESSORY_CORE, bg_INCLUSION_PHRASES,
                                      bg_ACCESSORY_ONLY_HINTS, bg_DEVICE_STRONG_HINTS)
        /\ callOut.dg = AccessoryRule(dg_ACCESSORY_CORE, dg_INCLUSION_PHRASES,
                                      dg_ACCESSORY_ONLY_HINTS, dg_DEVICE_STRONG_HINTS)
        /\ callOut.jg = AccessoryRule(jg_ACCESSORY_CORE, jg_INCLUSION_PHRASES,
                                      jg_ACCESSORY_ONLY_HINTS, jg_DEVICE_STRONG_HINTS)


\* C12: no two executions of crawl_and_update are in progress at the same time,
\* whatever the interleaving of start_scheduler, stop_scheduler and cron firings.
C12_NoOverlappingRuns == Cardinality(InProgress) <= 1

\* C13: when two pipeline runs resolve the same (category, fingerprint) at the
\* same time, neither run fails, and once both have ended they hold the same
\* SKU id.
C13_ConcurrentRunsAgree ==
    \A p, q \in Runs :
        (p # q /\ runKey[p] = runKey[q]) =>
            /\ runPc[p] # "raised"
            /\ (runPc[p] = "done" /\ runPc[q] = "done") => runGot[p] = runGot[q]

\* C19: a run fails to create its SKU only when a row of its own (category,
\* fingerprint) exists; the same mapping under another category gets its own row.
C19_IdentityIsCategoryAndFingerprint ==
    \A p \in Runs :
        /\ runPc[p] = "raised" =>
               SelectSku(runKey[p].category_id, RunFingerprint(p)) # {}
        /\ runPc[p] = "done" =>
               \E r \in sku : /\ r.sku_id = runGot[p]
                              /\ r.category_id = runKey[p].category_id
                              /\ r.fingerprint = RunFingerprint(p)


\* C14: for a non-empty set of SKUs, fetch_summary_info answers not-found whenever
\* no price_stats bucket exists for the requested scope, with a region_id given
\* as well as city-wide.
C14_NoBucketIsNotFound ==
    (lastSummary.called /\ LatestJoin(lastSummary.sku_ids, lastSummary.region_id) = {})
        => lastSummary.result.status = "404"


EarliestPoint(chart_data) ==
    CHOOSE i \in DOMAIN chart_data :
        \A j \in DOMAIN chart_data : chart_data[i].period <= chart_data[j].period

LatestPoint(chart_data) ==
    CHOOSE i \in DOMAIN chart_data :
        \A j \in DOMAIN chart_data : chart_data[j].period <= chart_data[i].period

\* C15: fetch_price_trend gives change_rate 0 when it has fewer than two weekly
\* buckets or the earliest bucket's price is 0, otherwise (latest price - earliest
\* price) / earliest price * 100; chart_data runs from the earliest period to the
\* latest.
C15_TrendChangeRate ==
    (callOut # <<>> /\ "chart_data" \in DOMAIN callOut) =>
        LET cd == callOut.chart_data IN
        /\ Len(cd) < 2 => callOut.change_rate = 0
        /\ Len(cd) >= 2 =>
              LET earliest == cd[EarliestPoint(cd)].price
                  latest == cd[LatestPoint(cd)].price
              IN  callOut.change_rate =
                      IF earliest = 0 THEN 0
                      ELSE Round2Percent(latest - earliest, earliest)
        /\ \A i, j \in DOMAIN cd : i < j => cd[i].period < cd[j].period


\* a spec names an option value that the reference options do not hold
UnresolvedOption(spec) ==
    \E key \in {"color", "model"} :
        /\ Truthy(spec[key])
        /\ SelectOption(LowerStr(KeyText(key)), LowerStr(spec[key])) = {}

\* a spec with no field that can be used for matching
NoUsableField(spec) ==
    /\ ~Truthy(spec.model)
    /\ ~Truthy(spec.color)
    /\ (~Truthy(spec.storage) \/ SelectSeq(spec.storage, IsDigit) = <<>>)

LaterQueries ==
    {"fetch_summary_info", "fetch_regional_analysis", "fetch_price_trend",
     "fetch_lowest_listings"}

\* C16: when an option value cannot be resolved, the spec has no usable field, or
\* the product is unrecognized, fetch_sku_id_with_fingerprint ends in a failure
\* and none of the summary, breakdown, trend and listing queries runs.
C16_UnresolvableSpecFails ==
    (/\ callOut # <<>>
     /\ "fetch_sku" \in DOMAIN callOut
     /\ \/ UnresolvedOption(callIn.spec)
        \/ NoUsableField(callIn.spec)
        \/ PRODUCT2CATEGORY(callIn.product) = Null)
    => /\ callOut.fetch_sku.kind = "raise"
       /\ callOut.queries \cap LaterQueries = {}


StatusValues == {"active", "reserved", "sold", "hidden"}

\* C17: every listing persisted by upsert_items has a status among active,
\* reserved, sold and hidden.
C17_StatusEnumerated == \A row \in items : row.status \in StatusValues

\* The record gives no price: none as a number, and none that its text parses to.
PriceAbsent(r) == r.price = Null /\ parse_price_to_int(r.price_text) = Null

\* C18: a listing whose price is absent or unparseable is not persisted: after a
\* request, a key that was not stored before and whose only record in the request
\* has no price has no row.
C18_AbsentPriceNotPersisted ==
    lastIngest.called =>
        \A i \in 1..Len(lastIngest.rows) :
            LET r == lastIngest.rows[i] IN
            (/\ PriceAbsent(r)
             /\ \A j \in 1..Len(lastIngest.rows) :
                   j # i => ~(/\ lastIngest.rows[j].source = r.source
                              /\ lastIngest.rows[j].external_id = r.external_id)
             /\ ~\E old \in lastIngest.before : SameKeyAsRecord(old, r))
            => StoredRows(r) = {}


\* The capacity a text names, in GB: its digits, times 1024 when the unit is TB.
CapacityGB(t) ==
    LET n == StrToInt(SelectSeq(t, IsDigit)) IN
    IF Contains(t, <<84, 66>>) THEN 1024 * n ELSE n

\* The mapping of a listing with every capacity replaced by its amount in GB.
CanonicalMapping(rows) ==
    LET d == get_item_attributes(rows) IN
    {IF d[i][1] = S_storage THEN <<d[i][1], CapacityGB(d[i][2])>> ELSE d[i] : i \in DOMAIN d}

\* C20: two attribute mappings that differ only in how an equal capacity is
\* written (1TB, 1024GB) get the same fingerprint.
C20_EqualCapacitySameFingerprint ==
    (callOut # <<>> /\ "first" \in DOMAIN callOut
        /\ CanonicalMapping(callIn.first) = CanonicalMapping(callIn.second))
    => callOut.first = callOut.second


C22_NothingStartsAfterStop ==
    /\ dgAfterStop = {}
    /\ dgPc \in {"record", "recorded"} =>
           \A l \in DOMAIN detail_tasks :
               /\ detail_tasks[l] \in DgTerminal
               /\ detail_tasks[l] = "written" => l \in dgRows

\* C26: a dong is recorded as last_done_dong only after every link discovered
\* for it has been fetched and processed (a fetch that timed out counts as
\* processed); a dong cut short by the stop signal is not recorded.
C26_RecordedDongIsComplete ==
    dgPc = "recorded" =>
        /\ DOMAIN detail_tasks = DgSite[dgGu][dgDong].links
        /\ \A l \in DOMAIN detail_tasks :
               detail_tasks[l] \in {"rejected", "written", "timeout"}

\* C27: a run that starts after a run that ended without interruption, and is
\* itself not interrupted, crawls every dong listed for every district.
C27_CompletedRunSkipsNothing ==
    (/\ dgPc = "exit"
     /\ Len(dgEnded) >= 2
     /\ dgEnded[Len(dgEnded) - 1]
     /\ dgEnded[Len(dgEnded)])
        => dgVisited = DgAllDongs

\* The prices of the rows the running process has appended to the CSV.
RECURSIVE SumPrices(_, _)
SumPrices(csv, from) ==
    IF from > Len(csv) THEN 0 ELSE csv[from].price + SumPrices(csv, from + 1)

\* C23: the running-mean state changes only when a listing is admitted: n is
\* the number of listings the process has admitted and mean is the arithmetic
\* mean of their prices.
C23_MeanCountsAdmittedOnly ==
    bgPc = "run" =>
        /\ running_stats.n = Len(output_csv) - bgStart
        /\ running_stats.n * running_stats.mean = SumPrices(output_csv, bgStart + 1)

\* C30: whatever step the process stops at, the checkpoint file holds the whole
\* content of one save_checkpoint call (or is still absent), never a partial
\* write, and only the caller holding the lock is inside the save.
C30_CheckpointSaveAtomic ==
    /\ ckFiles.file = None \/ \E v \in 1..ckSaves : ckFiles.file = Complete(v)
    /\ \A c \in Savers :
           ckPc[c] \in {"open", "dump", "replace", "release"} => checkpoint_lock = c

\* The process stopped in the middle of the writes of a save while the file
\* held the content of an earlier save.
C30_StoppedMidSave ==
    /\ ~ckAlive
    /\ \E c \in Savers :
           /\ ckPc[c] = "dump"
           /\ ckFiles.part = <<ckData[c]>>
           /\ \E v \in 1..ckSaves : v # ckData[c] /\ ckFiles.file = Complete(v)

C25_EarlierListingsRemain ==
    (callOut # <<>> /\ "executed" \in DOMAIN callOut) =>
        \A i \in DOMAIN callOut.executed :
            \E r \in callOut.items :
                /\ r.source = callOut.executed[i].source
                /\ r.external_id = callOut.executed[i].external_id

\* C28: a SKU the pipeline created from a listing's attributes is returned by
\* fetch_sku_id_with_fingerprint for the SKU's category, its model and any
\* subset of its other attribute values.
C28_CreatedSkuIsFound ==
    (callOut # <<>> /\ "created" \in DOMAIN callOut) =>
        /\ callOut.found.kind = "return"
        /\ callOut.created.sku_id \in callOut.found.sku_ids

\* C29: when the SKU-resolution stage has returned, every listing it resolved
\* has items.sku_id equal to the SKU resolved for it and is among the rows
\* fetch_lowest_listings selects for that SKU, and every other listing is left
\* without a SKU reference.
C29_SkuReferencePersisted ==
    pc = "aggregate" =>
        \A i \in items :
            IF i.item_id \in DOMAIN sku_map
            THEN /\ i.sku_id = sku_map[i.item_id]
                 /\ i.status = "active" => i \in fetch_lowest_listings({sku_map[i.item_id]}, Null)
            ELSE i.sku_id = Null

=============================================================================
